---------------------------- MODULE Spec2Model ----------------------------
(***************************************************************************)
(* Bouncing Blitz: the fixed-step game loop (GameEngine), the integrator   *)
(* (PhysicsService) and the sphere/platform collision query (Platform).    *)
(*                                                                         *)
(* Numbers.  The program computes in IEEE doubles; the model computes in   *)
(* fixed point and rounds every product and quotient toward zero:          *)
(*   positions, lengths   in 1/Unit world units          (Unit = 7200)     *)
(*   velocities           in position quanta per fixed step (1/120 u/s)    *)
(*   accelerations        in velocity quanta per fixed step                *)
(*   times                in 1/TimeScale seconds          (TimeScale = 360)*)
(*   restitution/friction in tenths, forces of platforms in tenths         *)
(*   unit vectors         in 1/NormScale                                   *)
(* With these units velocity * fixedTimeStep is exact, and so is           *)
(* acceleration * dt for dt = fixedTimeStep and fixedTimeStep / 2.         *)
(***************************************************************************)
EXTENDS Integers, Sequences, FiniteSets, TLC

Unit == 60 * 120
TimeScale == 6 * 60
VelScale == Unit \div 60
NormScale == 10 * 100
Tenth == 2 * 5

\* GameEngine.fixedTimeStep = 1 / 60 s
fixedTimeStep == TimeScale \div 60

-----------------------------------------------------------------------------
(* Arithmetic of doubles, in fixed point.                                  *)

Abs(a) == IF a < 0 THEN -a ELSE a
Sign(a) == IF a > 0 THEN 1 ELSE IF a < 0 THEN -1 ELSE 0
Min2(a, b) == IF a < b THEN a ELSE b
Max2(a, b) == IF a > b THEN a ELSE b

\* a / b rounded toward zero (b > 0)
TDiv(a, b) == IF a >= 0 THEN a \div b ELSE -((-a) \div b)

\* the element of a one-element set: { F(x) : x \in {e} } evaluates e once
Only(S) == CHOOSE x \in S : TRUE

RECURSIVE SqrtSearch(_, _, _)
SqrtSearch(n, lo, hi) ==
  IF lo >= hi THEN lo
  ELSE Only({ IF mid * mid <= n THEN SqrtSearch(n, mid, hi)
              ELSE SqrtSearch(n, lo, mid - 1) : mid \in {(lo + hi + 1) \div 2} })

\* floor and ceiling of the square root of n, 0 <= n < 2^31
FloorSqrt(n) == SqrtSearch(n, 0, 46340)
CeilSqrt(n) == LET f == FloorSqrt(n) IN IF f * f = n THEN f ELSE f + 1

(* THREE.Vector3, as a triple.                                             *)
Vec(x, y, z) == <<x, y, z>>
Zero3 == <<0, 0, 0>>
Axes == 1..3
VAdd(a, b) == [i \in Axes |-> a[i] + b[i]]
VSub(a, b) == [i \in Axes |-> a[i] - b[i]]
VDot(a, b) == a[1] * b[1] + a[2] * b[2] + a[3] * b[3]
VLenSq(a) == VDot(a, a)
\* v.multiplyScalar(n / d)
VScale(a, n, d) == [i \in Axes |-> TDiv(a[i] * n, d)]
\* v.normalize(): v / (v.length() || 1), a unit vector in 1/NormScale
VNormalize(a) ==
  IF a = Zero3 THEN Zero3
  ELSE LET len == CeilSqrt(VLenSq(a))
       IN [i \in Axes |-> TDiv(a[i] * NormScale, len)]
\* a vector scaled by a dt given in time quanta
ScaleByDt(a, dt) == [i \in Axes |-> TDiv(a[i] * dt, fixedTimeStep)]


-----------------------------------------------------------------------------
(* Platform (core/entities/Platform.ts)                                    *)

PlatformType == {"normal", "start", "finish", "checkpoint", "boost", "obstacle", "bounce"}
Undef == "undefined"
\* an optional value of a config or result: undefined, or a value
None == <<>>
Some(v) == <<v>>

\* Platform.maxPenetration = 0.1
maxPenetration == Unit \div 10

\* a || b of JavaScript on an optional number: b when a is undefined or 0
OrDefault(a, b) == IF a = None \/ a = Some(0) THEN b ELSE a[1]
\* a ?? b
Coalesce(a, b) == IF a = None THEN b ELSE a[1]

\* Box3.setFromObject(mesh) of an unrotated box mesh
BoxMin(pos, dims) == [i \in Axes |-> pos[i] - Abs(dims[i]) \div 2]
BoxMax(pos, dims) == [i \in Axes |-> pos[i] + Abs(dims[i]) \div 2]

\* new Platform(config); dims = <<width, height, depth>>
NewPlatform(config) ==
  [ type            |-> Coalesce(config.type, "normal"),
    boostForce      |-> OrDefault(config.boostForce, 15),
    bounceForce     |-> OrDefault(config.bounceForce, 15),
    checkpointIndex |-> OrDefault(config.checkpointIndex, -1),
    isActive        |-> Coalesce(config.isActive, TRUE),
    dims            |-> config.dims,
    position        |-> config.position,
    initialPosition |-> config.position,
    previousPosition|-> config.position,
    velocity        |-> Zero3,
    isMoving        |-> Coalesce(config.isMoving, FALSE),
    moveAxis        |-> Coalesce(config.moveAxis, 2),
    accumulatedTime |-> 0,
    bbMin           |-> BoxMin(config.position, config.dims),
    bbMax           |-> BoxMax(config.position, config.dims) ]

\* a PlatformConfig with every optional field left out
Config(type, position, dims) ==
  [ type |-> Some(type), position |-> position, dims |-> dims, isMoving |-> None,
    moveAxis |-> None, boostForce |-> None, bounceForce |-> None,
    checkpointIndex |-> None, isActive |-> None ]

\* Box3.expandByScalar / Box3.containsPoint
ExpMin(p, r) == [i \in Axes |-> p.bbMin[i] - r]
ExpMax(p, r) == [i \in Axes |-> p.bbMax[i] + r]
ContainsPoint(lo, hi, pt) == \A i \in Axes : lo[i] <= pt[i] /\ pt[i] <= hi[i]

\* Platform.getPlatformEffect, and the same switch inside checkSphereCollision
getPlatformEffect(p) ==
  [ boostForce      |-> IF p.type = "boost" THEN Some(p.boostForce) ELSE None,
    bounceForce     |-> IF p.type = "bounce" THEN Some(p.bounceForce) ELSE None,
    checkpointIndex |-> IF p.type = "checkpoint" THEN Some(p.checkpointIndex) ELSE None ]

NoEffect == [boostForce |-> None, bounceForce |-> None, checkpointIndex |-> None]

\* the squared length of a time of impact: time = sqrt(distSq / lenSq)
NoTime == [distSq |-> 0, lenSq |-> 1]

\* { collides: false }
NoCollision ==
  [ collides |-> FALSE, path |-> "none", normal |-> Zero3, penetration |-> 0,
    time |-> NoTime, point |-> Zero3, platformType |-> Undef, platformEffect |-> NoEffect ]

\* Platform.calculateCollisionNormal: the face distances of the bounding box
FaceDist(p, pt, i) == Min2(Abs(pt[i] - p.bbMin[i]), Abs(pt[i] - p.bbMax[i]))
\* Math.sign(impactPoint[i] - center[i]), center = (min + max) / 2
SignFromCenter(p, pt, i) == Sign(2 * pt[i] - (p.bbMin[i] + p.bbMax[i]))

AxisNormal(i, s) == [j \in Axes |-> IF j = i THEN s * NormScale ELSE 0]

calculateCollisionNormal(p, impactPoint) ==
  LET dx == FaceDist(p, impactPoint, 1)
      dy == FaceDist(p, impactPoint, 2)
      dz == FaceDist(p, impactPoint, 3)
  IN IF dx < dy /\ dx < dz THEN AxisNormal(1, SignFromCenter(p, impactPoint, 1))
     ELSE IF dy < dx /\ dy < dz THEN AxisNormal(2, SignFromCenter(p, impactPoint, 2))
     ELSE AxisNormal(3, SignFromCenter(p, impactPoint, 3))

\* Platform.calculatePenetration: radius - |(point - center) . normal|, at least 0
calculatePenetration(p, point, radius, normal) ==
  LET twice == [i \in Axes |-> 2 * point[i] - (p.bbMin[i] + p.bbMax[i])]
      projected == TDiv(VDot(twice, normal), 2 * NormScale)
  IN Max2(0, radius - Abs(projected))

\* checkStaticSphereCollision returning the raw penetration, not limited to the maximum
checkStaticUnlimited(p, spherePosition, sphereRadius) ==
  IF ~ContainsPoint(ExpMin(p, sphereRadius), ExpMax(p, sphereRadius), spherePosition)
  THEN NoCollision
  ELSE LET normal == calculateCollisionNormal(p, spherePosition)
       IN [ collides |-> TRUE, path |-> "static", normal |-> normal,
            penetration |-> calculatePenetration(p, spherePosition, sphereRadius, normal),
            time |-> NoTime, point |-> spherePosition,
            platformType |-> p.type, platformEffect |-> getPlatformEffect(p) ]

\* checkStaticSphereCollision testing the bounding box itself, not the box expanded
\* by the sphere radius
checkStaticUnexpanded(p, spherePosition, sphereRadius) ==
  IF ~ContainsPoint(p.bbMin, p.bbMax, spherePosition)
  THEN NoCollision
  ELSE LET normal == calculateCollisionNormal(p, spherePosition)
           penetration == calculatePenetration(p, spherePosition, sphereRadius, normal)
       IN [ collides |-> TRUE, path |-> "static", normal |-> normal,
            penetration |-> Min2(penetration, maxPenetration),
            time |-> NoTime, point |-> spherePosition,
            platformType |-> p.type, platformEffect |-> getPlatformEffect(p) ]

\* Platform.checkStaticSphereCollision
checkStaticSphereCollision(p, spherePosition, sphereRadius) ==
  IF ~ContainsPoint(ExpMin(p, sphereRadius), ExpMax(p, sphereRadius), spherePosition)
  THEN NoCollision
  ELSE LET normal == calculateCollisionNormal(p, spherePosition)
           penetration == calculatePenetration(p, spherePosition, sphereRadius, normal)
       IN [ collides |-> TRUE, path |-> "static", normal |-> normal,
            penetration |-> Min2(penetration, maxPenetration),
            time |-> NoTime, point |-> spherePosition,
            platformType |-> p.type, platformEffect |-> getPlatformEffect(p) ]

\* Platform.handlePenetration
handlePenetration(p, spherePosition, sphereRadius) ==
  LET twice == [i \in Axes |-> 2 * spherePosition[i] - (p.bbMin[i] + p.bbMax[i])]
  IN [ collides |-> TRUE, path |-> "fallback", normal |-> VNormalize(twice),
       penetration |-> sphereRadius + Unit \div 100,
       time |-> NoTime, point |-> spherePosition,
       platformType |-> p.type, platformEffect |-> getPlatformEffect(p) ]

-----------------------------------------------------------------------------
(* THREE.Ray.intersectBox.  The ray direction is path / |path|, so every   *)
(* ray parameter t is s * |path| for a rational s = n / d; the comparisons *)
(* of intersectBox are comparisons of the s.  A zero direction component   *)
(* gives 1 / 0 = Infinity, and (face - origin) * Infinity is +Infinity,    *)
(* -Infinity or NaN (0 * Infinity).                                        *)

TFin(n, d) == [k |-> "fin", n |-> n, d |-> d]
TPInf == [k |-> "pinf", n |-> 0, d |-> 1]
TNInf == [k |-> "ninf", n |-> 0, d |-> 1]
TNaN == [k |-> "nan", n |-> 0, d |-> 1]
InfMul(a) == IF a > 0 THEN TPInf ELSE IF a < 0 THEN TNInf ELSE TNaN
IsNaN(a) == a.k = "nan"

\* a > b of doubles: false when either is NaN
TGt(a, b) ==
  CASE a.k = "nan" \/ b.k = "nan" -> FALSE
    [] a.k = "pinf" -> b.k # "pinf"
    [] a.k = "ninf" -> FALSE
    [] b.k = "pinf" -> FALSE
    [] b.k = "ninf" -> TRUE
    [] OTHER -> a.n * b.d > b.n * a.d
TLt(a, b) == TGt(b, a)
TLtZero(a) == a.k = "ninf" \/ (a.k = "fin" /\ a.n < 0)
TGeZero(a) == a.k = "pinf" \/ (a.k = "fin" /\ a.n >= 0)

\* tmin and tmax of one axis: invdir >= 0 takes (min, max), else (max, min)
AxisT(o, lo, hi, dir) ==
  IF dir > 0 THEN [tmin |-> TFin(lo - o, dir), tmax |-> TFin(hi - o, dir)]
  ELSE IF dir < 0 THEN [tmin |-> TFin(o - hi, -dir), tmax |-> TFin(o - lo, -dir)]
  ELSE [tmin |-> InfMul(lo - o), tmax |-> InfMul(hi - o)]

\* ray.intersectBox(box, target): null, or the ray parameter of the point returned
NoHit == [hit |-> FALSE, t |-> TNaN]
intersectBox(origin, path, lo, hi) ==
  LET ax == AxisT(origin[1], lo[1], hi[1], path[1])
      ay == AxisT(origin[2], lo[2], hi[2], path[2])
      az == AxisT(origin[3], lo[3], hi[3], path[3])
      tmin1 == IF TGt(ay.tmin, ax.tmin) \/ IsNaN(ax.tmin) THEN ay.tmin ELSE ax.tmin
      tmax1 == IF TLt(ay.tmax, ax.tmax) \/ IsNaN(ax.tmax) THEN ay.tmax ELSE ax.tmax
      tmin2 == IF TGt(az.tmin, tmin1) \/ IsNaN(tmin1) THEN az.tmin ELSE tmin1
      tmax2 == IF TLt(az.tmax, tmax1) \/ IsNaN(tmax1) THEN az.tmax ELSE tmax1
  IN IF TGt(ax.tmin, ay.tmax) \/ TGt(ay.tmin, ax.tmax) THEN NoHit
     ELSE IF TGt(tmin1, az.tmax) \/ TGt(az.tmin, tmax1) THEN NoHit
     ELSE IF TLtZero(tmax2) THEN NoHit
     ELSE [hit |-> TRUE, t |-> IF TGeZero(tmin2) THEN tmin2 ELSE tmax2]

\* ray.at(t): origin + direction * t = origin + path * s
RayAt(origin, path, t) == [i \in Axes |-> origin[i] + TDiv(path[i] * t.n, t.d)]

\* spherePath.length() ^ 2 after spherePath.normalize() has overwritten spherePath
\* with the ray direction (Platform.ts:225, 240): 1, or 0 for a zero path
pathLengthSq(spherePath) == IF spherePath = Zero3 THEN 0 ELSE Unit * Unit

\* |v|^2 > limSq for limSq < 2^29, without overflow
MaxComp == 26 * 1000
LongerThanSq(v, limSq) ==
  \/ \E i \in Axes : Abs(v[i]) > MaxComp
  \/ VLenSq(v) > limSq

\* v halved until its squared length fits 32 bits: the direction of v
RECURSIVE Shrink(_)
Shrink(v) ==
  IF \E i \in Axes : Abs(v[i]) > MaxComp
  THEN Shrink([i \in Axes |-> TDiv(v[i], 2)])
  ELSE v

\* lengthSq() < 0.0001 of a velocity in units per second
Negligible(v) ==
  /\ \A i \in Axes : Abs(v[i]) <= VelScale
  /\ VLenSq(v) * 10000 < VelScale * VelScale

\* Platform.checkSphereCollision
checkSphereCollision(p, spherePosition, sphereRadius, sphereVelocity, deltaTime) ==
  IF Negligible(sphereVelocity) /\ ~p.isMoving
  THEN checkStaticSphereCollision(p, spherePosition, sphereRadius)
  ELSE
    LET relativeVelocity == VSub(sphereVelocity, p.velocity)
        spherePath == ScaleByDt(relativeVelocity, deltaTime)
        lo == ExpMin(p, sphereRadius)
        hi == ExpMax(p, sphereRadius)
        hasIntersection == intersectBox(spherePosition, spherePath, lo, hi)
        lenSq == pathLengthSq(spherePath)
        impactPoint == RayAt(spherePosition, spherePath, hasIntersection.t)
        travelled == VSub(impactPoint, spherePosition)
        normal == calculateCollisionNormal(p, impactPoint)
        penetration == calculatePenetration(p, impactPoint, sphereRadius, normal)
    IN IF ~hasIntersection.hit
       THEN IF ContainsPoint(lo, hi, spherePosition)
            THEN handlePenetration(p, spherePosition, sphereRadius)
            ELSE NoCollision
       \* pathLength < 0.0001
       ELSE IF lenSq = 0 THEN NoCollision
       \* an infinite distance (no nonzero path gives one: some axis is finite)
       ELSE IF hasIntersection.t.k # "fin" THEN NoCollision
       \* timeOfImpact > 1.0 (it is a distance over a length, never < 0)
       ELSE IF LongerThanSq(travelled, lenSq) THEN NoCollision
       ELSE [ collides |-> TRUE, path |-> "swept", normal |-> normal,
              penetration |-> Min2(penetration, maxPenetration),
              time |-> [distSq |-> VLenSq(travelled), lenSq |-> lenSq],
              point |-> impactPoint,
              platformType |-> p.type, platformEffect |-> getPlatformEffect(p) ]

-----------------------------------------------------------------------------
(* PhysicsService                                                          *)

\* PhysicsService.config
gravity == 20 * (Unit \div 3600)
maxVelocity == 30 * VelScale
minBounceVelocity == VelScale \div 10
maxPredictionSteps == 3
\* const bounds = 10 of checkBounds
worldBounds == 10 * Unit

\* the object PhysicsService.addObject registers for a mesh
NewBody(position, radius, options) ==
  [ position |-> position, radius |-> radius,
    velocity |-> Zero3,
    acceleration |-> Vec(0, -gravity, 0),
    mass |-> Coalesce(options.mass, 1),
    restitution |-> Coalesce(options.restitution, 5),
    friction |-> Coalesce(options.friction, 2),
    previousPosition |-> position,
    previousVelocity |-> Zero3 ]

\* velocity.normalize().multiplyScalar(maxVelocity)
ClampSpeed(v) ==
  IF LongerThanSq(v, maxVelocity * maxVelocity)
  THEN LET w == Shrink(v)
           len == CeilSqrt(VLenSq(w))
       IN [i \in Axes |-> TDiv(w[i] * maxVelocity, len)]
  ELSE v

\* updateObject with the velocity limit left out
updateObjectUnlimited(o, deltaTime) ==
  LET v == VAdd(o.velocity, ScaleByDt(o.acceleration, deltaTime))
  IN [o EXCEPT !.velocity = v, !.position = VAdd(o.position, ScaleByDt(v, deltaTime))]

\* PhysicsService.updateObject
updateObject(o, deltaTime) ==
  LET v == ClampSpeed(VAdd(o.velocity, ScaleByDt(o.acceleration, deltaTime)))
  IN [o EXCEPT !.velocity = v, !.position = VAdd(o.position, ScaleByDt(v, deltaTime))]

\* the floor part of PhysicsService.checkBounds
checkFloor(o) ==
  IF o.position[2] - o.radius < 0
  THEN IF Abs(o.velocity[2]) > minBounceVelocity
       THEN [o EXCEPT !.position[2] = o.radius,
                      !.velocity = Vec(TDiv(o.velocity[1] * (Tenth - o.friction), Tenth),
                                       TDiv(Abs(o.velocity[2]) * o.restitution, Tenth),
                                       TDiv(o.velocity[3] * (Tenth - o.friction), Tenth))]
       ELSE [o EXCEPT !.position[2] = o.radius, !.velocity[2] = 0]
  ELSE o

\* the x or z part of PhysicsService.checkBounds
checkSide(o, i) ==
  IF Abs(o.position[i]) > worldBounds
  THEN [o EXCEPT !.position[i] = Sign(o.position[i]) * worldBounds,
                 !.velocity[i] = TDiv(-o.velocity[i] * o.restitution, Tenth)]
  ELSE o

\* PhysicsService.checkBounds
checkBounds(o) == checkSide(checkSide(checkFloor(o), 1), 3)

\* Math.min(Math.ceil(velocity.length() * deltaTime), maxPredictionSteps):
\* ceil(x) exceeds k exactly when x > k
subStepCount(velocity, deltaTime) ==
  LET exceeds(k) ==
        IF k = 0 THEN velocity # Zero3 /\ deltaTime > 0
        ELSE LET lim == (k * fixedTimeStep * Unit) \div deltaTime
             IN LongerThanSq(velocity, lim * lim)
  IN Cardinality({k \in 0..(maxPredictionSteps - 1) : exceeds(k)})

RECURSIVE subStepLoop(_, _, _)
subStepLoop(o, steps, subDelta) ==
  IF steps = 0 THEN o
  ELSE Only({ subStepLoop(next, steps - 1, subDelta) :
              next \in {checkBounds(updateObject(o, subDelta))} })

\* the body of the forEach of PhysicsService.update; with subSteps = 0 the
\* division gives Infinity and the loop does not run
updateBody(o, deltaTime) ==
  LET saved == [o EXCEPT !.previousPosition = o.position, !.previousVelocity = o.velocity]
      subSteps == subStepCount(o.velocity, deltaTime)
  IN IF subSteps = 0 THEN saved
     ELSE subStepLoop(saved, subSteps, deltaTime \div subSteps)

\* the floor contacts of the sub-steps: the vertical velocity the body arrived with
\* and the one checkBounds left it with
RECURSIVE floorImpacts(_, _, _)
floorImpacts(o, steps, subDelta) ==
  IF steps = 0 THEN {}
  ELSE UNION { (IF moved.position[2] - moved.radius < 0
                THEN {[impact |-> moved.velocity[2], after |-> checkFloor(moved).velocity[2]]}
                ELSE {})
               \cup floorImpacts(checkBounds(moved), steps - 1, subDelta) :
               moved \in {updateObject(o, subDelta)} }

\* what one update did to a body: its sub-steps, the time they integrated, the
\* velocity it started with and its floor contacts
updateLog(o, deltaTime) ==
  LET subSteps == subStepCount(o.velocity, deltaTime)
      subDelta == IF subSteps = 0 THEN 0 ELSE deltaTime \div subSteps
  IN [ deltaTime |-> deltaTime,
       subSteps |-> subSteps,
       subDelta |-> subDelta,
       integrated |-> subSteps * subDelta,
       startVelocity |-> o.velocity,
       floorImpacts |-> floorImpacts(o, subSteps, subDelta) ]

\* PhysicsService.applyImpulse on a registered object: velocity += force / mass
impulseBody(o, force) ==
  [o EXCEPT !.velocity = VAdd(o.velocity, [i \in Axes |-> TDiv(force[i], o.mass)])]

-----------------------------------------------------------------------------
(* Platform.update (moving platforms) and LevelService                     *)

\* Math.cos(n / 30) * 10000 for n = 0..24: the cosine of accumulatedTime * moveSpeed
\* after n fixed steps, moveSpeed = 2
CosTable ==
  << 10000, 9994, 9978, 9950, 9911, 9861, 9801, 9729, 9647, 9553, 9450, 9335, 9211,
     9076, 8931, 8776, 8611, 8437, 8253, 8061, 7859, 7648, 7429, 7202, 6967 >>
CosAt(time) ==
  LET n == time \div fixedTimeStep
  IN CosTable[Min2(n, Len(CosTable) - 1) + 1]

\* Platform.moveDistance default
moveDistance == 2

\* the body of Platform.update after its guard: the platform follows the cosine
platformAdvance(p, deltaTime) ==
  LET time == p.accumulatedTime + deltaTime
      offset == TDiv(CosAt(time) * moveDistance * Unit, 10000)
      target == [p.initialPosition EXCEPT ![p.moveAxis] = @ + offset]
      \* mesh.position.lerp(newPosition, 0.1)
      moved == [i \in Axes |-> p.position[i] + TDiv(target[i] - p.position[i], 10)]
  IN [p EXCEPT !.previousPosition = p.position,
               !.accumulatedTime = time,
               !.position = moved,
               !.velocity = [i \in Axes |->
                               TDiv((moved[i] - p.position[i]) * fixedTimeStep, deltaTime)],
               !.bbMin = BoxMin(moved, p.dims),
               !.bbMax = BoxMax(moved, p.dims)]

\* Platform.update without its first line: every platform follows the cosine
platformUpdateUnguarded(p, deltaTime) == platformAdvance(p, deltaTime)

\* Platform.update
platformUpdate(p, deltaTime) ==
  IF ~p.isMoving THEN p ELSE platformAdvance(p, deltaTime)

\* LevelService.updatePlatforms; the platform set is a sequence of <<id, platform>>
\* in the insertion order of the Map
updatePlatforms(ps, deltaTime) ==
  [i \in 1..Len(ps) |-> [id |-> ps[i].id, p |-> platformUpdate(ps[i].p, deltaTime)]]

\* LevelService.trackConfig
trackWidth == 20 * Unit
trackLength == 100 * Unit

\* LevelService.constrainPosition: writes the vector it is given and returns it
constrainPosition(position) ==
  Vec(Max2(-(trackWidth \div 2), Min2(trackWidth \div 2, position[1])),
      Max2(0, position[2]),
      Max2(-trackLength, Min2(0, position[3])))

-----------------------------------------------------------------------------
(* GameEngine                                                              *)

\* GameEngine.movementConfig
moveForce == 5 * VelScale
jumpForce == 5 * VelScale
\* airControl = 0.3, in tenths
airControl == 3

Player == "player-ball"

\* the grounded test of handleInput
isGrounded(body, engineVelocity, ps, deltaTime) ==
  \/ body.position[2] <= body.radius + Unit \div 10
  \/ \E i \in 1..Len(ps) :
       LET c == checkSphereCollision(ps[i].p, body.position, body.radius,
                                     engineVelocity, deltaTime)
       IN c.collides /\ 2 * c.normal[2] > NormScale

\* impulses with a jump in mid-air: the jump does not ask for the ground
inputImpulsesAirJump(input, grounded, deltaTime) ==
  LET force == TDiv(moveForce * deltaTime, TimeScale)
      control == IF grounded THEN force ELSE TDiv(force * airControl, Tenth)
  IN   (IF input.left THEN <<Vec(-control, 0, 0)>> ELSE <<>>)
    \o (IF input.right THEN <<Vec(control, 0, 0)>> ELSE <<>>)
    \o (IF input.up THEN <<Vec(0, 0, -control)>> ELSE <<>>)
    \o (IF input.down THEN <<Vec(0, 0, control)>> ELSE <<>>)
    \o (IF input.jump THEN <<Vec(0, jumpForce, 0)>> ELSE <<>>)

\* the impulses of handleInput, in the order they are applied
inputImpulses(input, grounded, deltaTime) ==
  LET force == TDiv(moveForce * deltaTime, TimeScale)
      control == IF grounded THEN force ELSE TDiv(force * airControl, Tenth)
  IN   (IF input.left THEN <<Vec(-control, 0, 0)>> ELSE <<>>)
    \o (IF input.right THEN <<Vec(control, 0, 0)>> ELSE <<>>)
    \o (IF input.up THEN <<Vec(0, 0, -control)>> ELSE <<>>)
    \o (IF input.down THEN <<Vec(0, 0, control)>> ELSE <<>>)
    \o (IF input.jump /\ grounded THEN <<Vec(0, jumpForce, 0)>> ELSE <<>>)

RECURSIVE applyImpulses(_, _)
applyImpulses(o, forces) ==
  IF forces = <<>> THEN o
  ELSE Only({ applyImpulses(next, Tail(forces)) : next \in {impulseBody(o, Head(forces))} })

\* GameEngine.handleInput: the player ball after the impulses
handleInput(bs, objs, ps, input, deltaTime) ==
  IF Player \notin DOMAIN objs \/ Player \notin DOMAIN bs THEN bs
  ELSE LET grounded == isGrounded(bs[Player], objs[Player].velocity, ps, deltaTime)
       IN [bs EXCEPT ![Player] =
             applyImpulses(@, inputImpulses(input, grounded, deltaTime))]

\* what GameEngine.handleInput found and did: the grounded flag and the forces it
\* passed to applyImpulse
inputCall(bs, objs, ps, input, deltaTime) ==
  IF Player \notin DOMAIN objs \/ Player \notin DOMAIN bs
  THEN [grounded |-> FALSE, impulses |-> <<>>]
  ELSE Only({ [grounded |-> grounded,
               impulses |-> inputImpulses(input, grounded, deltaTime)] :
              grounded \in {isGrounded(bs[Player], objs[Player].velocity, ps, deltaTime)} })

\* the response of GameEngine.update to one platform: acc holds the velocity of the
\* engine's object, the position of its mesh, and what the loop has seen so far
respond(acc, id, p, c, restitution) ==
  LET onTop == 2 * c.normal[2] > NormScale
      boost == c.platformEffect.boostForce
      bounce == c.platformEffect.bounceForce
      v1 == IF boost # None /\ boost # Some(0)
            THEN VAdd(acc.velocity,
                      VScale(VNormalize(acc.velocity), boost[1] * VelScale, NormScale))
            ELSE acc.velocity
      v2 == IF bounce # None /\ bounce # Some(0)
            THEN [v1 EXCEPT ![2] = TDiv(Abs(v1[2]) * bounce[1] * 2, Tenth)]
            ELSE v1
      dot == TDiv(VDot(v2, c.normal), NormScale)
      v3 == VScale(VAdd(v2, VScale(c.normal, -2 * dot, NormScale)), restitution, Tenth)
      v4 == IF p.velocity # Zero3 THEN VAdd(v3, VScale(p.velocity, 8, 10)) ELSE v3
      v5 == IF onTop THEN Vec(TDiv(v4[1] * 8, 10), v4[2], TDiv(v4[3] * 8, 10)) ELSE v4
      resolution == VScale(c.normal, c.penetration, NormScale)
  IN [ velocity |-> IF dot < 0 THEN v5 ELSE v2,
       meshPosition |-> IF dot < 0 /\ c.penetration # 0
                        THEN VAdd(acc.meshPosition, resolution) ELSE acc.meshPosition,
       isOnPlatform |-> onTop,
       \* the value of isOnPlatform after the response to each platform, in order
       marks |-> Append(acc.marks, [ platform |-> id, normalY |-> c.normal[2],
                                      isOnPlatform |-> onTop ]),
       reported |-> acc.reported \cup {id},
       standing |-> IF onTop THEN acc.standing \cup {id} ELSE acc.standing,
       corrections |-> IF dot < 0 /\ c.penetration # 0
                       THEN acc.corrections \cup {resolution} ELSE acc.corrections,
       \* what the platform-specific effects wrote: the increment of the boost and
       \* the velocity.y of the bounce
       effects |-> IF c.platformEffect = NoEffect THEN acc.effects
                   ELSE acc.effects \cup
                          {[ platform |-> id,
                             boost |-> IF boost # None /\ boost # Some(0)
                                       THEN Some(VSub(v1, acc.velocity)) ELSE None,
                             bounce |-> IF bounce # None /\ bounce # Some(0)
                                        THEN Some(v2[2]) ELSE None ]} ]

\* platforms.forEach of GameEngine.update for one object: every query is made at
\* `position`, the clone taken before the loop
RECURSIVE collideAll(_, _, _, _, _, _, _)
collideAll(acc, ps, i, position, radius, restitution, deltaTime) ==
  IF i > Len(ps) THEN acc
  ELSE Only({ collideAll(IF c.collides THEN respond(acc, ps[i].id, ps[i].p, c, restitution)
                         ELSE acc,
                         ps, i + 1, position, radius, restitution, deltaTime) :
              c \in {checkSphereCollision(ps[i].p, position, radius, acc.velocity,
                                          deltaTime)} })

\* the level-bounds part of GameEngine.update: constrainPosition has written the
\* clone it returns, so `position` and `constrainedPosition` are one vector
boundsResponse(acc, position, restitution) ==
  LET constrainedPosition == constrainPosition(position)
      positionNow == constrainedPosition
      flip(i) == IF positionNow[i] # constrainedPosition[i]
                 THEN TDiv(-acc.velocity[i] * restitution, Tenth) ELSE acc.velocity[i]
  IN IF positionNow # constrainedPosition
     THEN [acc EXCEPT !.meshPosition = constrainedPosition,
                      !.velocity = Vec(flip(1), flip(2), flip(3))]
     ELSE acc

\* objects.forEach of GameEngine.update for one object, after the integration
collideObject(body, obj, ps, deltaTime) ==
  LET start == [ velocity |-> obj.velocity, meshPosition |-> body.position,
                 isOnPlatform |-> FALSE, marks |-> <<>>, reported |-> {}, standing |-> {},
                 corrections |-> {}, effects |-> {} ]
      hit == collideAll(start, ps, 1, body.position, body.radius, obj.restitution, deltaTime)
  IN boundsResponse(hit, body.position, obj.restitution)

-----------------------------------------------------------------------------
(* InputService                                                            *)

Intents == {"left", "right", "up", "down", "jump"}
NoInput == [i \in Intents |-> FALSE]

\* InputService.config.keyBindings
keyBindings ==
  [ left |-> {"ArrowLeft", "a", "A"}, right |-> {"ArrowRight", "d", "D"},
    up |-> {"ArrowUp", "w", "W"}, down |-> {"ArrowDown", "s", "S"},
    jump |-> {"Space", " "} ]

\* InputService.updateState
updateState(state, key, isDown) ==
  [i \in Intents |-> IF key \in keyBindings[i] THEN isDown ELSE state[i]]

\* InputService.getState
getState(state, modalOpen) == IF modalOpen THEN NoInput ELSE state

\* InputService.resetState
resetState(state) == [i \in Intents |-> FALSE]

\* a keydown handler that does not look at the modal
handleKeyDownUnblocked(state, modalOpen, key) == updateState(state, key, TRUE)

\* InputService.handleKeyDown / handleKeyUp: the state after the event
handleKeyDown(state, modalOpen, key) ==
  IF modalOpen THEN state ELSE updateState(state, key, TRUE)
handleKeyUp(state, modalOpen, key) ==
  IF modalOpen THEN state ELSE updateState(state, key, FALSE)

\* InputService.setEditorModalOpen(isOpen): the state after the call
setEditorModalOpen(state, isOpen) == IF isOpen THEN resetState(state) ELSE state

\* the names of the keyboard events, with their key
KeyDownOp(key) == "keydown " \o key
KeyUpOp(key) == "keyup " \o key

-----------------------------------------------------------------------------
(* TrackEditorService                                                      *)

\* TrackEditorService after construction; isValid is what the last validateTrack
\* returned
NoEditor ==
  [ mode |-> "place", selectedPlatformType |-> "normal", selectedPlatform |-> None,
    isModified |-> FALSE, nextPlatformId |-> 0, isValid |-> None,
    \* whether initialize has set the scene, and the tracks in localStorage by key
    scene |-> FALSE, saved |-> <<>> ]

\* TrackEditorService.initialize(scene)
initialize(ed) == [ed EXCEPT !.scene = TRUE]

\* TrackEditorService.dispose: the scene and the state are reset, nextPlatformId is not
dispose(ed) ==
  [ed EXCEPT !.scene = FALSE, !.mode = "place", !.selectedPlatformType = "normal",
             !.selectedPlatform = None, !.isModified = FALSE]

\* the platform TrackEditorService.createPlatform constructs: 3 x 0.5 x 3
createPlatform(type, position) ==
  NewPlatform(Config(type, position, Vec(3 * Unit, Unit \div 2, 3 * Unit)))

\* LevelService.removePlatform: Map.delete keeps the order of the others
removePlatform(ps, id) == SelectSeq(ps, LAMBDA e : e.id # id)

\* Map.set(id, value): a new key goes last, a known key keeps its place
MapSet(ps, id, p) ==
  IF \E i \in 1..Len(ps) : ps[i].id = id
  THEN [i \in 1..Len(ps) |-> IF ps[i].id = id THEN [id |-> id, p |-> p] ELSE ps[i]]
  ELSE Append(ps, [id |-> id, p |-> p])

\* the localStorage key of a track (the names used here are lower case, no spaces)
trackKey(name) == "track_" \o name

\* a JSON.parse that would give the position back as a THREE.Vector3
parsedVector(v) == [class |-> "Vector3", x |-> v[1], y |-> v[2], z |-> v[3]]

\* JSON.parse(JSON.stringify(v)) of a THREE.Vector3: a plain object with x, y and z
\* and none of Vector3's methods
parsedPosition(v) == [class |-> "Object", x |-> v[1], y |-> v[2], z |-> v[3]]

\* what TrackEditorService.saveTrack stores, as JSON.parse gives it back
saveTrack(ps, name) ==
  LET idsOf(type) == SelectSeq([i \in 1..Len(ps) |-> ps[i].id],
                               LAMBDA id : \E i \in 1..Len(ps) :
                                             ps[i].id = id /\ ps[i].p.type = type)
      lastOf(type) == IF idsOf(type) = <<>> THEN "" ELSE idsOf(type)[Len(idsOf(type))]
  IN [ name |-> name,
       platforms |-> [i \in 1..Len(ps) |->
                        [ id |-> ps[i].id,
                          config |-> [ width |-> ps[i].p.dims[1],
                                       height |-> ps[i].p.dims[2],
                                       depth |-> ps[i].p.dims[3],
                                       position |-> parsedPosition(ps[i].p.position),
                                       type |-> ps[i].p.type ],
                          type |-> ps[i].p.type ]],
       checkpoints |-> idsOf("checkpoint"),
       startPlatformId |-> lastOf("start"),
       finishPlatformId |-> lastOf("finish") ]

\* new Platform(config) on a saved config throws where it calls config.position.clone()
\* unless the position is a Vector3
constructionThrows(config) == config.position.class # "Vector3"

\* the forEach of loadTrack over the saved platforms: it stops at the first throw
RECURSIVE loadPlatforms(_, _, _)
loadPlatforms(ps, entries, i) ==
  IF i > Len(entries) THEN [platforms |-> ps, failed |-> FALSE]
  ELSE IF constructionThrows(entries[i].config) THEN [platforms |-> ps, failed |-> TRUE]
  ELSE LET config == entries[i].config
           platform == NewPlatform(Config(config.type,
                                          Vec(config.position.x, config.position.y,
                                              config.position.z),
                                          Vec(config.width, config.height, config.depth)))
       IN loadPlatforms(MapSet(ps, entries[i].id, platform), entries, i + 1)

\* TrackEditorService.loadTrack(name): the platform set it leaves, whether it went
\* into its catch, and whether it did anything at all
loadTrack(ps, ed, name) ==
  IF ~ed.scene THEN [platforms |-> ps, failed |-> FALSE, ran |-> FALSE]
  ELSE IF trackKey(name) \notin DOMAIN ed.saved
  THEN [platforms |-> ps, failed |-> TRUE, ran |-> TRUE]
  ELSE \* every existing platform is removed, then the saved ones are constructed
       Only({ [platforms |-> r.platforms, failed |-> r.failed, ran |-> TRUE] :
              r \in {loadPlatforms(<<>>, ed.saved[trackKey(name)].platforms, 1)} })

\* TrackEditorService.validateTrack
validateTrack(ps) ==
  LET hasStart == \E i \in 1..Len(ps) : ps[i].p.type = "start"
      hasFinish == \E i \in 1..Len(ps) : ps[i].p.type = "finish"
      checkpoints == SelectSeq(ps, LAMBDA e : e.p.type = "checkpoint")
  IN hasStart /\ hasFinish /\ Len(checkpoints) > 0

-----------------------------------------------------------------------------
(* State.                                                                  *)

VARIABLES
  q,                 \* one call of Platform.checkSphereCollision: platform and arguments
  qres,              \* the CollisionResult it returned
  bodies,            \* PhysicsService.objects: id -> object (with its mesh)
  errors,            \* the number of errors ErrorService.handleError has stored
  phLog,             \* per body, the sub-steps of the last PhysicsService.update
  objects,           \* GameEngine.objects: id -> {velocity, restitution}
  platforms,         \* LevelService.platforms, in insertion order
  inputState,        \* InputService.state
  isEditorModalOpen, \* InputService.isEditorModalOpen
  isRunning,         \* GameEngine.isRunning
  accumulator,       \* GameEngine.accumulator
  pending,           \* gameLoop callbacks requestAnimationFrame has scheduled
  pc,                \* where the running gameLoop callback is: "idle" | "drain"
  frame,             \* the current callback: its deltaTime and its fixed updates
  stepLog,           \* what the last fixed update did
  editor,            \* TrackEditorService: state, nextPlatformId, last validateTrack
  budget,            \* callbacks, fixed updates and events so far
  lastOp             \* the operation that produced this state

queryVars == <<q, qres>>
physVars == <<bodies, errors, phLog>>
inputVars == <<inputState, isEditorModalOpen>>
loopVars == <<isRunning, accumulator, pending, pc, frame>>
engineVars == <<objects, platforms, stepLog>>
editorVars == <<editor>>
vars == <<q, qres, bodies, errors, phLog, objects, platforms, inputState,
          isEditorModalOpen, isRunning, accumulator, pending, pc, frame, stepLog, editor,
          budget, lastOp>>

\* the radius of the player ball, new THREE.SphereGeometry(0.5, 32, 32)
ballRadius == Unit \div 2

\* a platform of the test track (LevelService.createTestTrack): 4 x 0.5 x 2
TrackDims == Vec(4 * Unit, Unit \div 2, 2 * Unit)

NoStep ==
  [ deltaTime |-> 0, dts |-> {}, before |-> <<>>, velocityBefore |-> <<>>, calls |-> <<>>,
    input |-> NoInput, grounded |-> FALSE, impulses |-> <<>>, pushed |-> <<>>,
    integrated |-> <<>>,
    reported |-> <<>>, standing |-> <<>>, marks |-> <<>>, corrections |-> <<>>,
    effects |-> <<>>,
    levelCalls |-> {} ]
NoBudget == [frames |-> 0, updates |-> 0, events |-> 0]
NoQuery ==
  [ platform |-> NewPlatform(Config("normal", Zero3, TrackDims)),
    spherePosition |-> Zero3, sphereRadius |-> ballRadius, sphereVelocity |-> Zero3,
    deltaTime |-> fixedTimeStep, called |-> TRUE ]

QueryIdle == q = NoQuery /\ qres = NoCollision
EngineIdle ==
  /\ objects = <<>> /\ platforms = <<>> /\ stepLog = NoStep
  /\ inputState = NoInput /\ isEditorModalOpen = FALSE /\ editor = NoEditor
  /\ isRunning = FALSE /\ accumulator = 0 /\ pending = 0 /\ pc = "idle"
  /\ frame = [delta |-> 0, updates |-> 0]
PhysicsIdle == bodies = <<>> /\ errors = 0 /\ phLog = <<>>

-----------------------------------------------------------------------------
(* SpecQuery: checkSphereCollision as a function of its arguments.         *)

MaxQueryHeight == 7
MaxQueryX == 2

QueryCenter == Vec(0, 2 * Unit, 0)

\* the platform of a query: static, or moving with the velocity its last update derived
QueryPlatforms ==
  LET static == NewPlatform(Config("normal", QueryCenter, TrackDims))
      moving == NewPlatform([Config("boost", QueryCenter, TrackDims)
                               EXCEPT !.isMoving = Some(TRUE)])
  IN { static, moving,
       [moving EXCEPT !.velocity = Vec(0, VelScale \div 2, 0)] }

QueryPositions ==
  { Vec(kx * Unit, 2 * Unit + ky * (Unit \div 4), kz * Unit) :
      kx \in 0..MaxQueryX, ky \in 0..MaxQueryHeight, kz \in 0..1 }

\* sphere velocities: at rest, below the static threshold, falling at 5, 15 and
\* 30 units/s, rising, sliding along x, and falling diagonally
QueryVelocities ==
  { Zero3, Vec(1, 0, 0),
    Vec(0, -5 * VelScale, 0), Vec(0, -15 * VelScale, 0), Vec(0, -30 * VelScale, 0),
    Vec(0, 5 * VelScale, 0), Vec(5 * VelScale, 0, 0),
    Vec(5 * VelScale, -5 * VelScale, 0) }

InitQuery ==
  /\ q \in [ platform : QueryPlatforms, spherePosition : QueryPositions,
             sphereRadius : {ballRadius}, sphereVelocity : QueryVelocities,
             deltaTime : {fixedTimeStep}, called : {FALSE} ]
  /\ qres = NoCollision
  /\ PhysicsIdle /\ EngineIdle /\ budget = NoBudget /\ lastOp = "new"

\* the call
Query ==
  /\ ~q.called
  /\ qres' = checkSphereCollision(q.platform, q.spherePosition, q.sphereRadius,
                                  q.sphereVelocity, q.deltaTime)
  /\ q' = [q EXCEPT !.called = TRUE]
  /\ lastOp' = "checkSphereCollision"
  /\ UNCHANGED <<physVars, inputVars, editorVars, loopVars, engineVars, budget>>

NextQuery == Query

SpecQuery == InitQuery /\ [][NextQuery]_vars

-----------------------------------------------------------------------------
(* SpecPhysics: PhysicsService on its own, driven through its public       *)
(* methods applyImpulse and update.                                        *)

MaxPhysicsOps == 4

\* the options of the player ball (App), and a perfectly elastic variant
BallOptions(restitution) ==
  [mass |-> Some(1), restitution |-> Some(restitution), friction |-> Some(1)]

\* where a ball is added: in the air above the floor, resting on the floor, next
\* to the x bound of checkBounds
PhysicsPositions ==
  { Vec(0, Unit + Unit \div 10, 0), Vec(0, ballRadius, 0),
    Vec(worldBounds - Unit \div 10, ballRadius + Unit \div 10, 0) }

\* the forces of applyImpulse, up to 100 units/s on a mass of 1
PhysicsForces ==
  { Vec(0, -30 * VelScale, 0), Vec(0, -100 * VelScale, 0), Vec(0, 5 * VelScale, 0),
    Vec(30 * VelScale, 0, 0), Vec(100 * VelScale, 0, 0), Vec(3, 0, 0) }

PhysicsIds == {Player, "ghost"}
PhysicsDts == {fixedTimeStep, 2 * fixedTimeStep}

InitPhysics ==
  /\ \E position \in PhysicsPositions, restitution \in {7, 10} :
       bodies = [id \in {Player} |-> NewBody(position, ballRadius, BallOptions(restitution))]
  /\ errors = 0
  /\ phLog = <<>>
  /\ QueryIdle /\ EngineIdle /\ budget = NoBudget /\ lastOp = "new"

\* ErrorService.handleError on `stored` stored errors: push, and shift beyond the most
maxStoredErrors == 100
handleError(stored) == Min2(stored + 1, maxStoredErrors)

\* an impulse that registers the body it does not find
applyImpulseRegistering(objs, stored, id, force) ==
  [ objects |-> [b \in DOMAIN objs \cup {id} |->
                   IF b \in DOMAIN objs /\ b # id THEN objs[b]
                   ELSE impulseBody(IF b \in DOMAIN objs THEN objs[b]
                                    ELSE NewBody(Zero3, ballRadius, BallOptions(5)), force)],
    errors |-> IF id \in DOMAIN objs THEN stored ELSE handleError(stored) ]

\* PhysicsService.applyImpulse(id, force) on the objects and the stored errors
applyImpulse(objs, stored, id, force) ==
  IF id \notin DOMAIN objs
  THEN [objects |-> objs, errors |-> handleError(stored)]
  ELSE [objects |-> [objs EXCEPT ![id] = impulseBody(@, force)], errors |-> stored]

\* the name of a call of applyImpulse, with the id it was given
ImpulseOp(id) == "PhysicsService.applyImpulse " \o id

ApplyImpulse ==
  /\ budget.events < MaxPhysicsOps
  /\ \E id \in PhysicsIds, force \in PhysicsForces :
       /\ \E r \in {applyImpulse(bodies, errors, id, force)} :
            bodies' = r.objects /\ errors' = r.errors
       /\ lastOp' = ImpulseOp(id)
  /\ budget' = [budget EXCEPT !.events = @ + 1]
  /\ UNCHANGED <<phLog, queryVars, inputVars, editorVars, loopVars, engineVars>>

\* PhysicsService.update(deltaTime)
PhysicsUpdate ==
  /\ budget.events < MaxPhysicsOps
  /\ \E deltaTime \in PhysicsDts :
       /\ bodies' = [id \in DOMAIN bodies |-> updateBody(bodies[id], deltaTime)]
       /\ phLog' = [id \in DOMAIN bodies |-> updateLog(bodies[id], deltaTime)]
  /\ budget' = [budget EXCEPT !.events = @ + 1]
  /\ lastOp' = "PhysicsService.update"
  /\ UNCHANGED <<errors, queryVars, inputVars, editorVars, loopVars, engineVars>>

NextPhysics == ApplyImpulse \/ PhysicsUpdate

SpecPhysics == InitPhysics /\ [][NextPhysics]_vars

-----------------------------------------------------------------------------
(* GameEngine.update as a step of the state.                               *)

\* the entry GameEngine.addPhysicsObject keeps in GameEngine.objects: a velocity of
\* its own, not the one PhysicsService.addObject created
NewEngineObject(options) ==
  [velocity |-> Zero3, restitution |-> Coalesce(options.restitution, 5)]

\* a call GameEngine.update makes on LevelService, with its argument
LevelCall(method, deltaTime, position) ==
  [method |-> method, deltaTime |-> deltaTime, position |-> position]

\* the calls of one GameEngine.update in the order it makes them: the platform
\* update, the queries of handleInput (made when the player ball is above the ground
\* band), the integration, then one query for every object and platform
updateCalls(bs, objs, ps) ==
  LET asks == /\ Player \in DOMAIN objs /\ Player \in DOMAIN bs
              /\ bs[Player].position[2] > bs[Player].radius + Unit \div 10
  IN <<"LevelService.updatePlatforms">>
       \o [i \in 1..(IF asks THEN Len(ps) ELSE 0) |-> "Platform.checkSphereCollision"]
       \o <<"PhysicsService.update">>
       \o [i \in 1..(Cardinality(DOMAIN objs) * Len(ps)) |-> "Platform.checkSphereCollision"]

\* GameEngine.update(deltaTime)
update(deltaTime) ==
  \E cappedDeltaTime \in {Min2(deltaTime, TimeScale \div 10)} :
  \E moved \in {updatePlatforms(platforms, cappedDeltaTime)} :
  \E input \in {getState(inputState, isEditorModalOpen)} :
  \E call \in {inputCall(bodies, objects, moved, input, cappedDeltaTime)} :
  \E pushed \in {handleInput(bodies, objects, moved, input, cappedDeltaTime)} :
  \E integrated \in {[id \in DOMAIN pushed |-> updateBody(pushed[id], cappedDeltaTime)]} :
  \E log \in {[id \in DOMAIN pushed |-> updateLog(pushed[id], cappedDeltaTime)]} :
  \E hit \in {[id \in DOMAIN objects |->
                 collideObject(integrated[id], objects[id], moved, cappedDeltaTime)]} :
     /\ platforms' = moved
     /\ bodies' = [id \in DOMAIN integrated |->
                     IF id \in DOMAIN hit
                     THEN [integrated[id] EXCEPT !.position = hit[id].meshPosition]
                     ELSE integrated[id]]
     /\ phLog' = log
     /\ objects' = [id \in DOMAIN objects |->
                      [objects[id] EXCEPT !.velocity = hit[id].velocity]]
     /\ stepLog' =
          [ deltaTime |-> deltaTime,
            dts |-> {deltaTime, cappedDeltaTime}
                      \cup {log[id].subDelta : id \in {b \in DOMAIN log : log[b].subSteps > 0}},
            before |-> [id \in DOMAIN bodies |-> bodies[id].position],
            velocityBefore |-> [id \in DOMAIN bodies |-> bodies[id].velocity],
            calls |-> updateCalls(bodies, objects, moved),
            input |-> input, grounded |-> call.grounded, impulses |-> call.impulses,
            pushed |-> [id \in DOMAIN pushed |-> pushed[id].velocity],
            integrated |-> [id \in DOMAIN integrated |->
                              [ position |-> integrated[id].position,
                                velocity |-> integrated[id].velocity ]],
            reported |-> [id \in DOMAIN hit |-> hit[id].reported],
            standing |-> [id \in DOMAIN hit |-> hit[id].standing],
            marks |-> [id \in DOMAIN hit |-> hit[id].marks],
            corrections |-> [id \in DOMAIN hit |-> hit[id].corrections],
            effects |-> [id \in DOMAIN hit |-> hit[id].effects],
            levelCalls |->
              {LevelCall("updatePlatforms", Some(cappedDeltaTime), None)}
                \cup (IF DOMAIN objects = {} THEN {}
                      ELSE {LevelCall("getPlatforms", None, None)})
                \cup {LevelCall("constrainPosition", None, Some(integrated[id].position)) :
                        id \in DOMAIN objects} ]

-----------------------------------------------------------------------------
(* SpecStep: GameEngine.update as a function of the state of one ball and  *)
(* one static platform.  The ball has been given its velocity through      *)
(* applyImpulse; its speed is at most maxVelocity.                         *)

MaxSteps == 5

StepCenter == Vec(0, 2 * Unit, 0)
\* the platforms: a thin plate, a plate as high as those of the test track, a thin wall
StepDims ==
  { Vec(4 * Unit, Unit \div 20, 2 * Unit), Vec(4 * Unit, Unit \div 2, 2 * Unit),
    Vec(Unit \div 20, 2 * Unit, 2 * Unit) }
\* the distance of the ball's center from the face it moves towards
StepGaps == {Unit \div 100, Unit \div 4, ballRadius + Unit \div 10}
\* the impulses: falling at 30, 15 and 5 units/s, falling diagonally, rising at 30,
\* flying along x at 30
StepForces ==
  { Vec(0, -30 * VelScale, 0), Vec(0, -15 * VelScale, 0), Vec(0, -5 * VelScale, 0),
    Vec(5 * VelScale, -5 * VelScale, 0), Vec(0, 30 * VelScale, 0),
    Vec(30 * VelScale, 0, 0) }
StepRestitutions == {5, 7, 10}

InitStep ==
  /\ \E dims \in StepDims, gap \in StepGaps, force \in StepForces,
        restitution \in StepRestitutions :
       LET axis == IF force[2] # 0 THEN 2 ELSE 1
           \* the ball starts on the side of the platform it moves away from
           from == StepCenter[axis] - Sign(force[axis]) * (dims[axis] \div 2 + gap)
           options == BallOptions(restitution)
       IN /\ platforms = << [ id |-> "platform",
                              p |-> NewPlatform(Config("normal", StepCenter, dims)) ] >>
          /\ bodies = [id \in {Player} |->
                         impulseBody(NewBody([StepCenter EXCEPT ![axis] = from],
                                             ballRadius, options), force)]
          /\ objects = [id \in {Player} |-> NewEngineObject(options)]
  /\ errors = 0 /\ phLog = <<>> /\ stepLog = NoStep
  /\ inputState = NoInput /\ isEditorModalOpen = FALSE /\ editor = NoEditor
  /\ isRunning = FALSE /\ accumulator = 0 /\ pending = 0 /\ pc = "idle"
  /\ frame = [delta |-> 0, updates |-> 0]
  /\ QueryIdle /\ budget = NoBudget /\ lastOp = "new"

\* one call of GameEngine.update with the fixed time step
Step ==
  /\ budget.updates < MaxSteps
  /\ update(fixedTimeStep)
  /\ budget' = [budget EXCEPT !.updates = @ + 1]
  /\ lastOp' = "GameEngine.update"
  /\ UNCHANGED <<errors, queryVars, inputVars, editorVars, loopVars>>

NextStep == Step

SpecStep == InitStep /\ [][NextStep]_vars

-----------------------------------------------------------------------------
(* Spec: the application.  App builds the test track, adds the player ball *)
(* above the start platform and starts the loop; afterwards the browser    *)
(* delivers animation frames and key events.                               *)

MaxFrames == 3
MaxUpdates == 13
MaxEvents == 3

\* LevelService.trackConfig.gridSize and lanes; LevelService.gridToWorld
gridSize == 2 * Unit
lanes == 2 * 5
gridToWorld(lane, section, layer) ==
  Vec(((2 * lane - lanes) * gridSize) \div 2, layer * gridSize, -section * gridSize)

\* LevelService.createTestTrack
createTestTrack ==
  LET wide == Vec(2 * gridSize, Unit \div 2, gridSize)
      square == Vec(gridSize, Unit \div 2, gridSize)
      normal(i) == [ id |-> IF i = 3 THEN "platform3" ELSE IF i = 5 THEN "platform5"
                            ELSE IF i = 7 THEN "platform7" ELSE "platform9",
                     p |-> NewPlatform(Config("normal",
                                              gridToWorld((i % 7) + 2, i, 1), square)) ]
  IN << [id |-> "start", p |-> NewPlatform(Config("start", gridToWorld(5, 1, 0), wide))],
        normal(3), normal(5), normal(7), normal(9),
        [id |-> "checkpoint1",
         p |-> NewPlatform([Config("checkpoint", gridToWorld(5, 15, 1), wide)
                              EXCEPT !.checkpointIndex = Some(0)])],
        [id |-> "finish", p |-> NewPlatform(Config("finish", gridToWorld(5, 30, 1), wide))] >>

\* the start position App gives the ball: above the start platform
startPosition(ps) ==
  LET starts == {i \in 1..Len(ps) : ps[i].p.type = "start"}
      last == CHOOSE i \in starts : \A j \in starts : j <= i
  IN IF starts = {} THEN Vec(0, 5 * Unit, 0)
     ELSE VAdd(ps[last].p.position,
               Vec(0, ps[last].p.dims[2] + ballRadius + Unit \div 10, 0))

\* the elapsed times between two animation frames: 1/120 s, 1/60 s, 1/36 s, and a
\* stall of 0.2 s
FrameDeltas == {fixedTimeStep \div 2, fixedTimeStep, 10, 2 * (TimeScale \div 10)}

\* the keys of the keyboard events: bound to left, bound to jump, bound to nothing
Keys == {"ArrowLeft", " ", "Escape"}

Init ==
  /\ platforms = createTestTrack
  /\ bodies = [id \in {Player} |->
                 NewBody(startPosition(createTestTrack), ballRadius, BallOptions(7))]
  /\ objects = [id \in {Player} |-> NewEngineObject(BallOptions(7))]
  /\ errors = 0 /\ phLog = <<>> /\ stepLog = NoStep
  /\ inputState = NoInput /\ isEditorModalOpen = FALSE /\ editor = NoEditor
  /\ isRunning = FALSE /\ accumulator = 0 /\ pending = 0 /\ pc = "idle"
  /\ frame = [delta |-> 0, updates |-> 0]
  /\ QueryIdle /\ budget = NoBudget /\ lastOp = "new"

\* GameEngine.start: its first gameLoop runs at once, with no time elapsed, and
\* schedules the next
Start ==
  /\ pc = "idle"
  /\ budget.events < MaxEvents
  /\ IF isRunning
     THEN UNCHANGED <<isRunning, pending>>
     ELSE isRunning' = TRUE /\ pending' = pending + 1
  /\ budget' = [budget EXCEPT !.events = @ + 1]
  /\ lastOp' = "start"
  /\ UNCHANGED <<accumulator, pc, frame, physVars, queryVars, inputVars, editorVars, engineVars>>

\* GameEngine.stop
Stop ==
  /\ pc = "idle"
  /\ budget.events < MaxEvents
  /\ isRunning' = FALSE
  /\ budget' = [budget EXCEPT !.events = @ + 1]
  /\ lastOp' = "stop"
  /\ UNCHANGED <<accumulator, pending, pc, frame, physVars, queryVars, inputVars, editorVars,
                 engineVars>>

\* the deltaTime gameLoop would hand to update if it passed on the frame's own
updateArgumentOfFrame(frameDelta) == frameDelta

\* the deltaTime gameLoop hands to update: this.fixedTimeStep
updateArgument(frameDelta) == fixedTimeStep

\* a gameLoop that does not look at the flag
gameLoopEntersAlways(running) == TRUE

\* the first line of gameLoop, if (!this.isRunning) return: whether the callback goes on
gameLoopEnters(running) == running

\* a scheduled gameLoop callback begins: deltaTime is measured and accumulated
BeginFrame ==
  /\ pc = "idle" /\ pending > 0
  /\ budget.frames < MaxFrames
  /\ \E deltaTime \in FrameDeltas :
       /\ budget.updates + (accumulator + deltaTime) \div fixedTimeStep <= MaxUpdates
       /\ IF ~gameLoopEnters(isRunning)
          THEN /\ lastOp' = "gameLoop returned"
               /\ UNCHANGED <<accumulator, pc, frame>>
          ELSE /\ accumulator' = accumulator + deltaTime
               /\ frame' = [delta |-> deltaTime, updates |-> 0]
               /\ pc' = "drain"
               /\ lastOp' = "gameLoop"
  /\ pending' = pending - 1
  /\ budget' = [budget EXCEPT !.frames = @ + 1]
  /\ UNCHANGED <<isRunning, physVars, queryVars, inputVars, editorVars, engineVars>>

\* one turn of the while loop of gameLoop
FixedUpdate ==
  /\ pc = "drain" /\ accumulator >= fixedTimeStep
  /\ update(updateArgument(frame.delta))
  /\ accumulator' = accumulator - fixedTimeStep
  /\ frame' = [frame EXCEPT !.updates = @ + 1]
  /\ budget' = [budget EXCEPT !.updates = @ + 1]
  /\ lastOp' = "GameEngine.update"
  /\ UNCHANGED <<errors, isRunning, pending, pc, queryVars, inputVars, editorVars>>

\* the loop is over: render, and requestAnimationFrame schedules the next callback
EndFrame ==
  /\ pc = "drain" /\ accumulator < fixedTimeStep
  /\ pc' = "idle"
  /\ pending' = pending + 1
  /\ lastOp' = "render"
  /\ UNCHANGED <<isRunning, accumulator, frame, budget, physVars, queryVars, inputVars, editorVars,
                 engineVars>>

\* InputService.handleKeyDown
KeyDown ==
  /\ pc = "idle"
  /\ budget.events < MaxEvents
  /\ \E key \in Keys :
       /\ inputState' = handleKeyDown(inputState, isEditorModalOpen, key)
       /\ lastOp' = KeyDownOp(key)
  /\ budget' = [budget EXCEPT !.events = @ + 1]
  /\ UNCHANGED <<isEditorModalOpen, loopVars, physVars, queryVars, engineVars, editorVars>>

\* InputService.handleKeyUp
KeyUp ==
  /\ pc = "idle"
  /\ budget.events < MaxEvents
  /\ \E key \in Keys :
       /\ inputState' = handleKeyUp(inputState, isEditorModalOpen, key)
       /\ lastOp' = KeyUpOp(key)
  /\ budget' = [budget EXCEPT !.events = @ + 1]
  /\ UNCHANGED <<isEditorModalOpen, loopVars, physVars, queryVars, engineVars, editorVars>>

\* InputService.setEditorModalOpen(isOpen)
SetEditorModalOpen ==
  /\ pc = "idle"
  /\ budget.events < MaxEvents
  /\ \E isOpen \in BOOLEAN :
       /\ isEditorModalOpen' = isOpen
       /\ inputState' = setEditorModalOpen(inputState, isOpen)
  /\ budget' = [budget EXCEPT !.events = @ + 1]
  /\ lastOp' = "setEditorModalOpen"
  /\ UNCHANGED <<loopVars, physVars, queryVars, engineVars, editorVars>>

Next ==
  \/ Start \/ Stop \/ BeginFrame \/ FixedUpdate \/ EndFrame
  \/ KeyDown \/ KeyUp \/ SetEditorModalOpen

Spec == Init /\ [][Next]_vars

-----------------------------------------------------------------------------
(* SpecDrop: a ball released above the start platform of the test track, or *)
(* beside it above the floor, and the fixed updates that follow.  The game *)
(* loop keeps calling update for as long as frames arrive.                 *)

\* the height of the ball's center when it is released: the start position App
\* gives it, and higher
DropHeights == {Unit + Unit \div 10, 2 * Unit, 3 * Unit}
\* over the middle of the start platform, or beside it
DropOffsets == {0, 6 * Unit}
\* released at rest, or pushed down by an impulse (velocity quanta; not multiples of
\* the gravity step, as sums of doubles are not)
DropForces == {Zero3, Vec(0, -3, 0), Vec(0, -(VelScale + 3), 0)}
DropRestitutions == {5, 7}

StartPlatform == createTestTrack[1]

InitDrop ==
  /\ \E y \in DropHeights, x \in DropOffsets, force \in DropForces,
        restitution \in DropRestitutions :
       LET options == BallOptions(restitution)
           position == Vec(x, y, StartPlatform.p.position[3])
       IN /\ bodies = [id \in {Player} |->
                         impulseBody(NewBody(position, ballRadius, options), force)]
          /\ objects = [id \in {Player} |-> NewEngineObject(options)]
  /\ platforms = <<StartPlatform>>
  /\ errors = 0 /\ phLog = <<>> /\ stepLog = NoStep
  /\ inputState = NoInput /\ isEditorModalOpen = FALSE /\ editor = NoEditor
  /\ isRunning = FALSE /\ accumulator = 0 /\ pending = 0 /\ pc = "idle"
  /\ frame = [delta |-> 0, updates |-> 0]
  /\ QueryIdle /\ budget = NoBudget /\ lastOp = "new"

\* one fixed update
DropStep ==
  /\ update(fixedTimeStep)
  /\ lastOp' = "GameEngine.update"
  /\ UNCHANGED <<errors, queryVars, inputVars, editorVars, loopVars, budget>>

NextDrop == DropStep

SpecDrop == InitDrop /\ [][NextDrop]_vars /\ WF_vars(DropStep)

-----------------------------------------------------------------------------
(* SpecEffect: GameEngine.update with one ball and one platform of a type  *)
(* that has an effect, and Platform.setActive called on that platform.     *)

MaxEffectSteps == 3
MaxEffectEvents == 2

\* the configurations: each force left out (1.5 by default) or 1; checkpoint 0, as
\* in the test track, or 1
EffectConfigs ==
  LET config(type) == Config(type, StepCenter, TrackDims)
  IN { [config("boost") EXCEPT !.boostForce = f] : f \in {None, Some(Tenth)} }
       \cup { [config("bounce") EXCEPT !.bounceForce = f] : f \in {None, Some(Tenth)} }
       \cup { [config("checkpoint") EXCEPT !.checkpointIndex = k] : k \in {Some(0), Some(1)} }
\* the impulses: falling at 15 and 5 units/s, falling diagonally, rising at 5, flying
\* along x at 5
EffectForces ==
  { Vec(0, -15 * VelScale, 0), Vec(0, -5 * VelScale, 0),
    Vec(5 * VelScale, -5 * VelScale, 0), Vec(0, 5 * VelScale, 0),
    Vec(5 * VelScale, 0, 0) }
EffectGaps == {Unit \div 100, Unit \div 4}

InitEffect ==
  /\ \E config \in EffectConfigs, gap \in EffectGaps, force \in EffectForces :
       LET axis == IF force[2] # 0 THEN 2 ELSE 1
           from == StepCenter[axis] - Sign(force[axis]) * (TrackDims[axis] \div 2 + gap)
           options == BallOptions(7)
       IN /\ platforms = << [id |-> config.type[1], p |-> NewPlatform(config)] >>
          /\ bodies = [id \in {Player} |->
                         impulseBody(NewBody([StepCenter EXCEPT ![axis] = from],
                                             ballRadius, options), force)]
          /\ objects = [id \in {Player} |-> NewEngineObject(options)]
  /\ errors = 0 /\ phLog = <<>> /\ stepLog = NoStep
  /\ inputState = NoInput /\ isEditorModalOpen = FALSE /\ editor = NoEditor
  /\ isRunning = FALSE /\ accumulator = 0 /\ pending = 0 /\ pc = "idle"
  /\ frame = [delta |-> 0, updates |-> 0]
  /\ QueryIdle /\ budget = NoBudget /\ lastOp = "new"

EffectStep ==
  /\ budget.updates < MaxEffectSteps
  /\ update(fixedTimeStep)
  /\ budget' = [budget EXCEPT !.updates = @ + 1]
  /\ lastOp' = "GameEngine.update"
  /\ UNCHANGED <<errors, queryVars, inputVars, editorVars, loopVars>>

\* Platform.setActive(active)
setActive(p, active) == [p EXCEPT !.isActive = active]

SetActive ==
  /\ budget.events < MaxEffectEvents
  /\ \E i \in 1..Len(platforms), active \in BOOLEAN :
       platforms' = [platforms EXCEPT ![i].p = setActive(platforms[i].p, active)]
  /\ budget' = [budget EXCEPT !.events = @ + 1]
  /\ lastOp' = "Platform.setActive"
  /\ UNCHANGED <<physVars, objects, stepLog, queryVars, inputVars, editorVars, loopVars>>

NextEffect == EffectStep \/ SetActive

SpecEffect == InitEffect /\ [][NextEffect]_vars

-----------------------------------------------------------------------------
(* SpecPayload: new Platform(config) followed by one checkSphereCollision, *)
(* as a function of the configuration.                                     *)

\* the values a configuration gives for the force of its type or for its checkpoint
\* index: left out, or a number
PayloadForces == {None, Some(Tenth), Some(2 * Tenth)}
PayloadIndexes == {None, Some(0), Some(1), Some(2)}

PayloadConfigs ==
  { [Config(type, QueryCenter, TrackDims)
       EXCEPT !.boostForce = boostForce, !.bounceForce = bounceForce,
              !.checkpointIndex = checkpointIndex] :
      type \in PlatformType, boostForce \in PayloadForces, bounceForce \in PayloadForces,
      checkpointIndex \in PayloadIndexes }

\* sphere centers on the top face, above it within the radius, out of reach, and
\* inside the platform
PayloadPositions ==
  { Vec(0, QueryCenter[2] + TrackDims[2] \div 2 + dy, 0) :
      dy \in {0, Unit \div 4, 2 * Unit, -(Unit \div 4)} }
PayloadVelocities == {Zero3, Vec(0, -5 * VelScale, 0)}

InitPayload ==
  /\ \E config \in PayloadConfigs, position \in PayloadPositions,
        velocity \in PayloadVelocities :
       q = [ config |-> config, platform |-> NewPlatform(config),
             spherePosition |-> position, sphereRadius |-> ballRadius,
             sphereVelocity |-> velocity, deltaTime |-> fixedTimeStep,
             called |-> FALSE ]
  /\ qres = NoCollision
  /\ PhysicsIdle /\ EngineIdle /\ budget = NoBudget /\ lastOp = "new"

NextPayload == Query

SpecPayload == InitPayload /\ [][NextPayload]_vars

-----------------------------------------------------------------------------
(* SpecEditor: the track editor on the level createLevel has built:        *)
(* platforms are placed and deleted, and the track is saved.               *)

MaxEditorEvents == 4

\* the types the editor's selector offers that validateTrack tells apart, and one it
\* does not
EditorTypes == {"normal", "start", "finish", "checkpoint"}
\* the point of the grid plane a click hits
EditorPositions == {Vec(0, 0, 2 * gridSize)}
\* the track name typed into the editor: none, or one
TrackNames == {"", "track"}

InitEditor ==
  /\ platforms = createTestTrack
  /\ editor = initialize(NoEditor)
  /\ objects = <<>> /\ stepLog = NoStep
  /\ inputState = NoInput /\ isEditorModalOpen = TRUE
  /\ isRunning = FALSE /\ accumulator = 0 /\ pending = 0 /\ pc = "idle"
  /\ frame = [delta |-> 0, updates |-> 0]
  /\ PhysicsIdle /\ QueryIdle /\ budget = NoBudget /\ lastOp = "new"

EditorEvent(op) ==
  /\ budget.events < MaxEditorEvents
  /\ budget' = [budget EXCEPT !.events = @ + 1]
  /\ lastOp' = op
  /\ UNCHANGED <<physVars, queryVars, loopVars, objects, stepLog, inputState>>

\* TrackEditorService.setSelectedPlatformType(type)
SetSelectedPlatformType ==
  /\ \E type \in EditorTypes : editor' = [editor EXCEPT !.selectedPlatformType = type]
  /\ EditorEvent("TrackEditorService.setSelectedPlatformType")
  /\ UNCHANGED <<platforms, isEditorModalOpen>>

\* TrackEditorService.createPlatform(position), the scene initialized
CreatePlatform ==
  /\ \E position \in EditorPositions :
       platforms' = Append(platforms,
                           [ id |-> "platform_" \o ToString(editor.nextPlatformId),
                             p |-> createPlatform(editor.selectedPlatformType, position) ])
  /\ editor' = [editor EXCEPT !.nextPlatformId = @ + 1, !.isModified = TRUE]
  /\ EditorEvent("TrackEditorService.createPlatform")
  /\ UNCHANGED isEditorModalOpen

\* TrackEditorService.deletePlatform(platformId) of a platform of the level
DeletePlatform ==
  /\ \E i \in 1..Len(platforms) :
       /\ platforms' = removePlatform(platforms, platforms[i].id)
       /\ editor' = [editor EXCEPT
                       !.selectedPlatform =
                          IF @ = Some(platforms[i].id) THEN None ELSE @,
                       !.isModified = TRUE]
  /\ EditorEvent("TrackEditorService.deletePlatform")
  /\ UNCHANGED isEditorModalOpen

\* TrackEditorService.validateTrack()
ValidateTrack ==
  /\ editor' = [editor EXCEPT !.isValid = Some(validateTrack(platforms))]
  /\ EditorEvent("TrackEditorService.validateTrack")
  /\ UNCHANGED <<platforms, isEditorModalOpen>>

\* handleSave of the TrackEditor component: nothing without a name; validateTrack;
\* saveTrack and setEditorModalOpen(false) when the track is valid
HandleSave ==
  /\ \E trackName \in TrackNames :
       IF trackName = "" THEN UNCHANGED <<editor, isEditorModalOpen>>
       ELSE IF ~validateTrack(platforms)
       THEN /\ editor' = [editor EXCEPT !.isValid = Some(FALSE)]
            /\ UNCHANGED isEditorModalOpen
       ELSE /\ editor' = [editor EXCEPT
                              !.isValid = Some(TRUE), !.isModified = FALSE,
                              !.saved = (trackKey(trackName) :> saveTrack(platforms, trackName))
                                          @@ @]
            /\ isEditorModalOpen' = FALSE
  /\ EditorEvent("TrackEditor.handleSave")
  /\ UNCHANGED platforms

NextEditor ==
  \/ SetSelectedPlatformType
  \/ CreatePlatform
  \/ DeletePlatform
  \/ ValidateTrack
  \/ HandleSave

SpecEditor == InitEditor /\ [][NextEditor]_vars

-----------------------------------------------------------------------------
(* SpecConstruct: platforms and bodies are constructed from configurations *)
(* and options, valid and invalid, and added to the level and the engine.  *)

MaxConstructs == 3

\* widths, heights and depths: those of the editor's platforms, zero, negative
ConstructDims ==
  { Vec(width, height, depth) :
      width \in {3 * Unit, 0, -Unit}, height \in {Unit \div 2, 0}, depth \in {3 * Unit, -Unit} }
\* masses: left out, 1, 0, negative
ConstructMasses == {None, Some(1), Some(0), Some(-1)}
ConstructPlatformIds == {"platform_0", "platform_1"}
ConstructBodyIds == {Player, "ghost"}

InitConstruct ==
  /\ PhysicsIdle /\ EngineIdle /\ QueryIdle /\ budget = NoBudget /\ lastOp = "new"

\* new Platform(config) and LevelService.addPlatform(id, platform, scene)
AddPlatform ==
  /\ budget.events < MaxConstructs
  /\ \E id \in ConstructPlatformIds, dims \in ConstructDims :
       platforms' = MapSet(platforms, id, NewPlatform(Config("normal", Zero3, dims)))
  /\ budget' = [budget EXCEPT !.events = @ + 1]
  /\ lastOp' = "LevelService.addPlatform"
  /\ UNCHANGED <<physVars, objects, stepLog, queryVars, inputVars, editorVars, loopVars>>

\* GameEngine.addPhysicsObject(object, id, options), with PhysicsService.addObject
AddPhysicsObject ==
  /\ budget.events < MaxConstructs
  /\ \E id \in ConstructBodyIds, mass \in ConstructMasses :
       LET options == [BallOptions(7) EXCEPT !.mass = mass]
           body == NewBody(Vec(0, 2 * Unit, 0), ballRadius, options)
       IN /\ bodies' = [b \in DOMAIN bodies \cup {id} |-> IF b = id THEN body ELSE bodies[b]]
          /\ objects' = [b \in DOMAIN objects \cup {id} |->
                           IF b = id THEN NewEngineObject(options) ELSE objects[b]]
  /\ budget' = [budget EXCEPT !.events = @ + 1]
  /\ lastOp' = "GameEngine.addPhysicsObject"
  /\ UNCHANGED <<errors, phLog, platforms, stepLog, queryVars, inputVars, editorVars,
                 loopVars>>

NextConstruct == AddPlatform \/ AddPhysicsObject

SpecConstruct == InitConstruct /\ [][NextConstruct]_vars

-----------------------------------------------------------------------------
(* SpecInput: InputService enabled, under the keyboard events of the       *)
(* browser and the editor modal opening and closing, in any order.         *)

MaxInputEvents == 5

\* a key of each intent, a second key of one of them, and a key bound to nothing
InputKeys == {"ArrowLeft", "a", "ArrowRight", "ArrowUp", "ArrowDown", " ", "Escape"}

InitInput ==
  /\ PhysicsIdle /\ EngineIdle /\ QueryIdle /\ budget = NoBudget /\ lastOp = "new"

InputEvent ==
  /\ budget.events < MaxInputEvents
  /\ budget' = [budget EXCEPT !.events = @ + 1]
  /\ UNCHANGED <<loopVars, physVars, queryVars, engineVars, editorVars>>

InputKeyDown ==
  /\ \E key \in InputKeys :
       /\ inputState' = handleKeyDown(inputState, isEditorModalOpen, key)
       /\ lastOp' = KeyDownOp(key)
  /\ InputEvent
  /\ UNCHANGED isEditorModalOpen

InputKeyUp ==
  /\ \E key \in InputKeys :
       /\ inputState' = handleKeyUp(inputState, isEditorModalOpen, key)
       /\ lastOp' = KeyUpOp(key)
  /\ InputEvent
  /\ UNCHANGED isEditorModalOpen

InputSetEditorModalOpen ==
  /\ \E isOpen \in BOOLEAN :
       /\ isEditorModalOpen' = isOpen
       /\ inputState' = setEditorModalOpen(inputState, isOpen)
  /\ lastOp' = "setEditorModalOpen"
  /\ InputEvent

NextInput == InputKeyDown \/ InputKeyUp \/ InputSetEditorModalOpen

SpecInput == InitInput /\ [][NextInput]_vars

-----------------------------------------------------------------------------
(* SpecControl: GameEngine.update with the player ball on the start        *)
(* platform of the test track, above it, or on the floor beside it, under  *)
(* every combination of intents.                                           *)

MaxControlSteps == 2

\* resting on the start platform, at the start position App gives the ball, on the
\* floor beside the platform
ControlPositions ==
  { VAdd(StartPlatform.p.position, Vec(0, StartPlatform.p.dims[2] \div 2 + ballRadius, 0)),
    startPosition(createTestTrack),
    Vec(6 * Unit, ballRadius, StartPlatform.p.position[3]) }

InitControl ==
  /\ \E position \in ControlPositions :
       LET options == BallOptions(7)
       IN /\ bodies = [id \in {Player} |-> NewBody(position, ballRadius, options)]
          /\ objects = [id \in {Player} |-> NewEngineObject(options)]
  /\ platforms = <<StartPlatform>>
  /\ inputState \in [Intents -> BOOLEAN]
  /\ isEditorModalOpen = FALSE /\ editor = NoEditor
  /\ errors = 0 /\ phLog = <<>> /\ stepLog = NoStep
  /\ isRunning = FALSE /\ accumulator = 0 /\ pending = 0 /\ pc = "idle"
  /\ frame = [delta |-> 0, updates |-> 0]
  /\ QueryIdle /\ budget = NoBudget /\ lastOp = "new"

ControlStep ==
  /\ budget.updates < MaxControlSteps
  /\ update(fixedTimeStep)
  /\ budget' = [budget EXCEPT !.updates = @ + 1]
  /\ lastOp' = "GameEngine.update"
  /\ UNCHANGED <<errors, queryVars, inputVars, editorVars, loopVars>>

NextControl == ControlStep

SpecControl == InitControl /\ [][NextControl]_vars

-----------------------------------------------------------------------------
(* SpecPlatform: Platform.update called on the platforms of a level, static *)
(* and moving, with several time steps.                                    *)

MaxPlatformUpdates == 4

\* half a fixed step, a fixed step, two fixed steps
PlatformDts == {fixedTimeStep \div 2, fixedTimeStep, 2 * fixedTimeStep}

\* a static platform, a static checkpoint, a platform moving along y (the default
\* axis) and one moving along x
PlatformLevels ==
  LET config(type) == Config(type, QueryCenter, TrackDims)
      moving(axis) == [config("normal") EXCEPT !.isMoving = Some(TRUE),
                                                 !.moveAxis = Some(axis)]
  IN { << [id |-> "static", p |-> NewPlatform(config("normal"))],
          [id |-> "moving", p |-> NewPlatform(moving(axis))],
          [id |-> "checkpoint", p |-> NewPlatform(config("checkpoint"))] >> :
       axis \in {1, 2} }

InitPlatform ==
  /\ platforms \in PlatformLevels
  /\ objects = <<>> /\ stepLog = NoStep
  /\ inputState = NoInput /\ isEditorModalOpen = FALSE /\ editor = NoEditor
  /\ isRunning = FALSE /\ accumulator = 0 /\ pending = 0 /\ pc = "idle"
  /\ frame = [delta |-> 0, updates |-> 0]
  /\ PhysicsIdle /\ QueryIdle /\ budget = NoBudget /\ lastOp = "new"

\* LevelService.updatePlatforms(deltaTime): Platform.update on every platform
PlatformUpdate ==
  /\ budget.updates < MaxPlatformUpdates
  /\ \E deltaTime \in PlatformDts : platforms' = updatePlatforms(platforms, deltaTime)
  /\ budget' = [budget EXCEPT !.updates = @ + 1]
  /\ lastOp' = "LevelService.updatePlatforms"
  /\ UNCHANGED <<physVars, objects, stepLog, queryVars, inputVars, editorVars, loopVars>>

NextPlatform == PlatformUpdate

SpecPlatform == InitPlatform /\ [][NextPlatform]_vars

-----------------------------------------------------------------------------
(* SpecGround: GameEngine.update on a ball at the corner of a floor        *)
(* platform and a wall platform, which the level holds in either order.    *)

MaxGroundSteps == 2

\* a platform of the test track, and a wall standing on its right end
FloorPlatform == [id |-> "floor", p |-> NewPlatform(Config("normal", QueryCenter, TrackDims))]
WallPlatform ==
  [ id |-> "wall",
    p |-> NewPlatform(Config("normal",
                             VAdd(QueryCenter, Vec(2 * Unit, TrackDims[2] \div 2 + (3 * Unit) \div 2, 0)),
                             Vec(Unit, 3 * Unit, 2 * Unit))) ]

\* the ball rests on the floor platform or hovers just above it, away from the wall,
\* touching it, or a tenth of a unit into it
GroundPositions ==
  { VAdd(QueryCenter, Vec(x, TrackDims[2] \div 2 + ballRadius + y, 0)) :
      x \in {Unit \div 2, Unit, Unit + Unit \div 10}, y \in {0, Unit \div 10} }

InitGround ==
  /\ \E position \in GroundPositions :
       LET options == BallOptions(7)
       IN /\ bodies = [id \in {Player} |-> NewBody(position, ballRadius, options)]
          /\ objects = [id \in {Player} |-> NewEngineObject(options)]
  /\ platforms \in {<<FloorPlatform, WallPlatform>>, <<WallPlatform, FloorPlatform>>}
  /\ inputState \in {s \in [Intents -> BOOLEAN] : ~s.up /\ ~s.down /\ ~s.jump}
  /\ isEditorModalOpen = FALSE /\ editor = NoEditor
  /\ errors = 0 /\ phLog = <<>> /\ stepLog = NoStep
  /\ isRunning = FALSE /\ accumulator = 0 /\ pending = 0 /\ pc = "idle"
  /\ frame = [delta |-> 0, updates |-> 0]
  /\ QueryIdle /\ budget = NoBudget /\ lastOp = "new"

GroundStep ==
  /\ budget.updates < MaxGroundSteps
  /\ update(fixedTimeStep)
  /\ budget' = [budget EXCEPT !.updates = @ + 1]
  /\ lastOp' = "GameEngine.update"
  /\ UNCHANGED <<errors, queryVars, inputVars, editorVars, loopVars>>

NextGround == GroundStep

SpecGround == InitGround /\ [][NextGround]_vars

-----------------------------------------------------------------------------
(* SpecBounds: GameEngine.update with the ball of the application, added   *)
(* at the start position of the test track, while keys are held.           *)

MaxBoundsSteps == 75

InitBounds ==
  /\ platforms = createTestTrack
  /\ bodies = [id \in {Player} |->
                 NewBody(startPosition(createTestTrack), ballRadius, BallOptions(7))]
  /\ objects = [id \in {Player} |-> NewEngineObject(BallOptions(7))]
  /\ inputState \in {s \in [Intents -> BOOLEAN] : ~s.jump}
  /\ isEditorModalOpen = FALSE /\ editor = NoEditor
  /\ errors = 0 /\ phLog = <<>> /\ stepLog = NoStep
  /\ isRunning = FALSE /\ accumulator = 0 /\ pending = 0 /\ pc = "idle"
  /\ frame = [delta |-> 0, updates |-> 0]
  /\ QueryIdle /\ budget = NoBudget /\ lastOp = "new"

BoundsStep ==
  /\ budget.updates < MaxBoundsSteps
  /\ update(fixedTimeStep)
  /\ budget' = [budget EXCEPT !.updates = @ + 1]
  /\ lastOp' = "GameEngine.update"
  /\ UNCHANGED <<errors, queryVars, inputVars, editorVars, loopVars>>

NextBounds == BoundsStep

SpecBounds == InitBounds /\ [][NextBounds]_vars

-----------------------------------------------------------------------------
(* SpecTrack: the track editor and the level from their construction on:   *)
(* the level is created, platforms are placed and deleted, the track is    *)
(* saved and loaded, the editor is disposed and initialized again.         *)

MaxTrackEvents == 5

\* LevelService.createLevel: createTestTrack adds its platforms under their fixed ids
RECURSIVE addPlatforms(_, _, _)
addPlatforms(ps, entries, i) ==
  IF i > Len(entries) THEN ps
  ELSE addPlatforms(MapSet(ps, entries[i].id, entries[i].p), entries, i + 1)

createLevel(ps) == addPlatforms(ps, createTestTrack, 1)

\* the names typed into the editor for a load, and the ids handed to deletePlatform
LoadNames == {"track", "missing"}
DeleteIds == {"start", "platform_0", "missing"}

\* localStorage when the page is opened: empty, or holding the track an earlier
\* visit saved - the test track and one platform placed in the editor
EarlierTracks ==
  LET placed == createPlatform("normal", CHOOSE position \in EditorPositions : TRUE)
      level == MapSet(createTestTrack, "platform_0", placed)
  IN { <<>>, (trackKey("track") :> saveTrack(level, "track")) }

InitTrack ==
  /\ platforms = <<>>
  /\ \E saved \in EarlierTracks : editor = [NoEditor EXCEPT !.saved = saved]
  /\ objects = <<>> /\ stepLog = NoStep
  /\ inputState = NoInput /\ isEditorModalOpen = FALSE
  /\ isRunning = FALSE /\ accumulator = 0 /\ pending = 0 /\ pc = "idle"
  /\ frame = [delta |-> 0, updates |-> 0]
  /\ PhysicsIdle /\ QueryIdle /\ budget = NoBudget /\ lastOp = "new"

TrackEvent ==
  /\ budget.events < MaxTrackEvents
  /\ budget' = [budget EXCEPT !.events = @ + 1]
  /\ UNCHANGED <<bodies, phLog, queryVars, loopVars, objects, stepLog, inputVars>>

\* TrackEditorService.initialize(scene)
TrackInitialize ==
  /\ editor' = initialize(editor)
  /\ lastOp' = "TrackEditorService.initialize"
  /\ TrackEvent
  /\ UNCHANGED <<platforms, errors>>

\* TrackEditorService.dispose()
TrackDispose ==
  /\ editor' = dispose(editor)
  /\ lastOp' = "TrackEditorService.dispose"
  /\ TrackEvent
  /\ UNCHANGED <<platforms, errors>>

\* LevelService.createLevel(scene)
TrackCreateLevel ==
  /\ platforms' = createLevel(platforms)
  /\ lastOp' = "LevelService.createLevel"
  /\ TrackEvent
  /\ UNCHANGED <<editor, errors>>

\* TrackEditorService.createPlatform(position): an error without a scene
TrackCreatePlatform ==
  /\ IF ~editor.scene
     THEN /\ errors' = handleError(errors)
          /\ UNCHANGED <<platforms, editor>>
     ELSE /\ \E position \in EditorPositions :
               platforms' = MapSet(platforms,
                                   "platform_" \o ToString(editor.nextPlatformId),
                                   createPlatform(editor.selectedPlatformType, position))
          /\ editor' = [editor EXCEPT !.nextPlatformId = @ + 1, !.isModified = TRUE]
          /\ UNCHANGED errors
  /\ lastOp' = "TrackEditorService.createPlatform"
  /\ TrackEvent

\* TrackEditorService.deletePlatform(platformId): nothing without a scene
TrackDeletePlatform ==
  /\ \E platformId \in DeleteIds :
       IF ~editor.scene THEN UNCHANGED <<platforms, editor>>
       ELSE /\ platforms' = removePlatform(platforms, platformId)
            /\ editor' = [editor EXCEPT
                            !.selectedPlatform = IF @ = Some(platformId) THEN None ELSE @,
                            !.isModified = TRUE]
  /\ lastOp' = "TrackEditorService.deletePlatform"
  /\ TrackEvent
  /\ UNCHANGED errors

\* TrackEditorService.saveTrack(name, difficulty)
TrackSaveTrack ==
  /\ editor' = [editor EXCEPT !.isModified = FALSE,
                              !.saved = (trackKey("track") :> saveTrack(platforms, "track")) @@ @]
  /\ lastOp' = "TrackEditorService.saveTrack"
  /\ TrackEvent
  /\ UNCHANGED <<platforms, errors>>

\* TrackEditorService.loadTrack(name)
TrackLoadTrack ==
  /\ \E name \in LoadNames : \E r \in {loadTrack(platforms, editor, name)} :
       /\ platforms' = r.platforms
       /\ editor' = IF r.ran /\ ~r.failed THEN [editor EXCEPT !.isModified = FALSE] ELSE editor
       /\ errors' = IF r.failed THEN handleError(errors) ELSE errors
       /\ lastOp' = IF ~r.ran THEN "TrackEditorService.loadTrack returned"
                    ELSE IF r.failed THEN "TrackEditorService.loadTrack failed"
                    ELSE "TrackEditorService.loadTrack loaded"
  /\ TrackEvent

NextTrack ==
  \/ TrackInitialize
  \/ TrackDispose
  \/ TrackCreateLevel
  \/ TrackCreatePlatform
  \/ TrackDeletePlatform
  \/ TrackSaveTrack
  \/ TrackLoadTrack

SpecTrack == InitTrack /\ [][NextTrack]_vars

-----------------------------------------------------------------------------
(* Claims about the collision query (SpecQuery).                           *)

Returned == q.called
QueryPath == ScaleByDt(VSub(q.sphereVelocity, q.platform.velocity), q.deltaTime)
CenterInsideExpanded ==
  ContainsPoint(ExpMin(q.platform, q.sphereRadius), ExpMax(q.platform, q.sphereRadius),
                q.spherePosition)
\* the correction GameEngine.update adds to the position: normal * penetration
Correction(r) == VScale(r.normal, r.penetration, NormScale)
RawPenetration(r) == calculatePenetration(q.platform, r.point, q.sphereRadius, r.normal)

\* C2: whatever path produced a colliding result, its penetration, and every
\* component of the correction normal * penetration, is at most maxPenetration.
C2_PenetrationBound ==
  (Returned /\ qres.collides) =>
    /\ qres.penetration <= maxPenetration
    /\ ~LongerThanSq(Correction(qres), maxPenetration * maxPenetration)

\* a collision whose raw penetration exceeded the maximum, with a nonzero correction
C2_Witness ==
  /\ Returned /\ qres.collides
  /\ RawPenetration(qres) > maxPenetration
  /\ Correction(qres) # Zero3

\* C3 (as claimed): a sphere center inside the expanded box always gives a collision
\* whose contact point is the sphere center.
C3_InsideAlwaysCollides ==
  (Returned /\ CenterInsideExpanded) =>
    (qres.collides /\ qres.point = q.spherePosition)

\* C4 (as claimed): a swept collision is reported only when the hit lies within
\* this step's displacement, and its time is distance / |relativeVelocity * dt|.
C4_HitWithinDisplacement ==
  (Returned /\ qres.collides /\ qres.path = "swept") =>
    /\ ~LongerThanSq(VSub(qres.point, q.spherePosition), VLenSq(QueryPath))
    /\ qres.time.lenSq = VLenSq(QueryPath)

\* the distance from a point to the plane of the face of axis i on side s
FacePlaneDist(p, pt, i, s) ==
  IF s > 0 THEN Abs(pt[i] - p.bbMax[i]) ELSE Abs(pt[i] - p.bbMin[i])
IsNearestFaceNormal(p, pt, n) ==
  \E i \in Axes, s \in {-1, 1} :
    /\ n = AxisNormal(i, s)
    /\ \A j \in Axes, t \in {-1, 1} :
         FacePlaneDist(p, pt, i, s) <= FacePlaneDist(p, pt, j, t)

\* C5 (as claimed): the normal of every contact point is the signed unit axis of a
\* face at minimum distance, ties included.
C5_NormalIsNearestFace ==
  (Returned /\ qres.collides) =>
    IsNearestFaceNormal(q.platform, qres.point, qres.normal)

-----------------------------------------------------------------------------
(* Claims about PhysicsService.update (under SpecPhysics).                 *)

Updated == lastOp = "PhysicsService.update"

\* C8: in every PhysicsService.update(dt) every registered body is integrated over
\* the whole dt, in at least one sub-step, whatever its starting velocity (a body
\* at rest in the air included)
C8_IntegratedOverWholeDt ==
  \A id \in DOMAIN phLog :
    /\ phLog[id].subSteps >= 1
    /\ phLog[id].integrated = phLog[id].deltaTime

\* C9: at the end of every PhysicsService.update each body (restitution and friction
\* in [0,1]) has speed <= maxVelocity, whatever impulses preceded the update
C9_SpeedWithinMax ==
  Updated =>
    \A id \in DOMAIN bodies :
      ~LongerThanSq(bodies[id].velocity, maxVelocity * maxVelocity)

\* a body that entered the update faster than maxVelocity and left it clamped
C9_Witness ==
  /\ Updated
  /\ \E id \in DOMAIN bodies :
       /\ phLog[id].subSteps >= 1
       /\ LongerThanSq(phLog[id].startVelocity, maxVelocity * maxVelocity)
       /\ ~LongerThanSq(bodies[id].velocity, maxVelocity * maxVelocity)

-----------------------------------------------------------------------------
(* Claims about one fixed step of the engine (under SpecStep).             *)

Stepped == lastOp = "GameEngine.update"

\* the center went from one side of the platform to the other: from beyond one
\* face to beyond the opposite face, inside the platform's extent on the other axes
Crossed(p, from, to) ==
  \E i \in Axes :
    /\ \/ from[i] > p.bbMax[i] /\ to[i] < p.bbMin[i]
       \/ from[i] < p.bbMin[i] /\ to[i] > p.bbMax[i]
    /\ \A j \in Axes \ {i} :
         /\ p.bbMin[j] <= from[j] /\ from[j] <= p.bbMax[j]
         /\ p.bbMin[j] <= to[j] /\ to[j] <= p.bbMax[j]

\* C1: no tunneling: a fixed step that moves a body's center across a static
\* platform reports a collision of that body with that platform in that step
C1_NoTunneling ==
  Stepped =>
    \A id \in DOMAIN objects : \A i \in 1..Len(platforms) :
      ( /\ ~platforms[i].p.isMoving
        /\ Crossed(platforms[i].p, stepLog.before[id], stepLog.integrated[id].position) )
      => platforms[i].id \in stepLog.reported[id]

\* a step that carried the center across the thin platform, reported
C1_Witness ==
  /\ Stepped
  /\ \E id \in DOMAIN objects : \E i \in 1..Len(platforms) :
       /\ ~platforms[i].p.isMoving
       /\ Crossed(platforms[i].p, stepLog.before[id], stepLog.integrated[id].position)
       /\ platforms[i].id \in stepLog.reported[id]

\* r * v of a restitution in tenths, rounded toward zero
Rebound(restitution, speed) == TDiv(restitution * speed, Tenth)

\* C10: a body falling faster than the bounce threshold onto the floor or onto the
\* top of a static platform leaves the step with vertical velocity r * v, upward
C10_RestitutionLaw ==
  Stepped =>
    \A id \in DOMAIN objects :
      /\ \A h \in phLog[id].floorImpacts :
           h.impact < -minBounceVelocity
             => h.after = Rebound(bodies[id].restitution, -h.impact)
      /\ ( /\ stepLog.standing[id] # {}
           /\ phLog[id].floorImpacts = {}
           /\ stepLog.integrated[id].velocity[2] < -minBounceVelocity )
         => bodies[id].velocity[2]
              = Rebound(bodies[id].restitution, -stepLog.integrated[id].velocity[2])

-----------------------------------------------------------------------------
(* Claims about the game loop (under Spec).                                *)

\* the most fixed updates a frame capped to 0.1 s can run: ceil(0.1 / fixedTimeStep)
MaxUpdatesPerFrame == (TimeScale \div 10 + fixedTimeStep - 1) \div fixedTimeStep

\* C6: the elapsed time of a frame is capped to 0.1 s before it is accumulated, so one
\* gameLoop callback runs at most ceil(0.1 / fixedTimeStep) fixed updates
C6_UpdatesPerFrameCapped == frame.updates <= MaxUpdatesPerFrame

\* C7: every fixed update the loop starts, every integration step and every collision
\* query inside it runs with dt = fixedTimeStep, whatever the frame times
C7_ConstantDt == Stepped => stepLog.dts = {fixedTimeStep}

\* a fixed update that integrated the ball, in a frame whose elapsed time was not
\* the fixed time step
C7_Witness ==
  /\ Stepped
  /\ frame.delta # fixedTimeStep
  /\ \E id \in DOMAIN phLog : phLog[id].subSteps >= 1
  /\ stepLog.dts = {fixedTimeStep}

-----------------------------------------------------------------------------
(* Claims about a dropped ball (under SpecDrop).                           *)

\* the tops of the static surfaces under the center of a body: the floor, and every
\* static platform whose extent in x and z holds the center
SurfacesUnder(body) ==
  {0} \cup { platforms[i].p.bbMax[2] :
               i \in { j \in 1..Len(platforms) :
                         /\ ~platforms[j].p.isMoving
                         /\ platforms[j].p.bbMin[1] <= body.position[1]
                         /\ body.position[1] <= platforms[j].p.bbMax[1]
                         /\ platforms[j].p.bbMin[3] <= body.position[3]
                         /\ body.position[3] <= platforms[j].p.bbMax[3] } }

Resting(body) ==
  /\ body.velocity[2] = 0
  /\ \E top \in SurfacesUnder(body) : body.position[2] = top + body.radius

\* C11: a body dropped with zero horizontal velocity onto a static surface eventually
\* rests on it (position.y = surface top + radius, velocity.y = 0) and stays there
C11_EventuallyRests == <>[](\A id \in DOMAIN bodies : Resting(bodies[id]))

-----------------------------------------------------------------------------
(* Claims about the platform effects (under SpecEffect).                   *)

\* the platforms of a type the last step reported a collision of body `id` with
ReportedOfType(id, type) ==
  { i \in 1..Len(platforms) :
      platforms[i].p.type = type /\ platforms[i].id \in stepLog.reported[id] }

\* |v| * b * 2 of a force in tenths
BounceSpeed(v, bounceForce) == TDiv(Abs(v) * bounceForce * 2, Tenth)

\* C12: a body with velocity.y = v that collides with a bounce platform of
\* bounceForce b leaves the response with velocity.y = |v| * b * 2, whatever the
\* contact normal and the horizontal velocity
C12_BounceEffect ==
  Stepped =>
    \A id \in DOMAIN objects : \A i \in ReportedOfType(id, "bounce") :
      bodies[id].velocity[2]
        = BounceSpeed(stepLog.integrated[id].velocity[2], platforms[i].p.bounceForce)

\* f * 10 units/s along the direction of v, of a force in tenths
BoostIncrement(v, boostForce) == VScale(VNormalize(v), boostForce * VelScale, NormScale)

\* C13: a body colliding with a boost platform of boostForce f receives, once for
\* that platform in that step, a velocity increment of magnitude f * 10 along the
\* direction it was moving in before the collision
C13_BoostEffect ==
  Stepped =>
    \A id \in DOMAIN objects : \A i \in ReportedOfType(id, "boost") :
      \E e \in stepLog.effects[id] :
        /\ e.platform = platforms[i].id
        /\ e.boost = Some(BoostIncrement(stepLog.integrated[id].velocity,
                                         platforms[i].p.boostForce))

-----------------------------------------------------------------------------
(* Claims about the effect of a collision result (under SpecPayload).      *)

\* the value a configuration gives, or the default of the constructor when it gives
\* none
Configured(value, default) == IF value = None THEN default ELSE value[1]

\* C14: a colliding result of a boost platform carries the boostForce the platform
\* was constructed with, of a bounce platform its bounceForce, of a checkpoint
\* platform its checkpointIndex (0 included); of any other type no effect value
C14_EffectPayload ==
  (Returned /\ qres.collides) =>
    qres.platformEffect =
      [ boostForce |-> IF q.config.type = Some("boost")
                       THEN Some(Configured(q.config.boostForce, 15)) ELSE None,
        bounceForce |-> IF q.config.type = Some("bounce")
                        THEN Some(Configured(q.config.bounceForce, 15)) ELSE None,
        checkpointIndex |-> IF q.config.type = Some("checkpoint")
                            THEN Some(Configured(q.config.checkpointIndex, -1))
                            ELSE None ]

-----------------------------------------------------------------------------
(* Claims about checkpoints (under SpecEffect).                            *)

\* LevelService was told, by a call of the last step, of checkpoint `index`
Notified(index) ==
  \E c \in stepLog.levelCalls :
    /\ "checkpointIndex" \in DOMAIN c
    /\ c.checkpointIndex = index

\* C15: in every fixed step in which a body collides with a checkpoint platform,
\* LevelService is notified with the index of that checkpoint (and the checkpoint
\* goes from pending to passed)
C15_CheckpointDispatch ==
  Stepped =>
    \A id \in DOMAIN objects : \A i \in ReportedOfType(id, "checkpoint") :
      /\ Notified(platforms[i].p.checkpointIndex)
      /\ ~platforms[i].p.isActive

\* C16: a checkpoint that is passed (inactive) is never pending (active) again
C16_CheckpointMonotone ==
  [][ \A i \in 1..Len(platforms) :
        (platforms[i].p.type = "checkpoint" /\ ~platforms[i].p.isActive)
          => (i \in 1..Len(platforms') /\ ~platforms'[i].p.isActive) ]_vars

-----------------------------------------------------------------------------
(* Claims about the track editor (under SpecEditor).                       *)

Validated == lastOp = "TrackEditorService.validateTrack"
CountOfType(type) == Cardinality({i \in 1..Len(platforms) : platforms[i].p.type = type})

\* C17: validateTrack returns true exactly when the track has exactly one start
\* platform, at least one finish platform and at least one checkpoint platform
C17_TrackValidity ==
  Validated =>
    editor.isValid = Some( /\ CountOfType("start") = 1
                           /\ CountOfType("finish") >= 1
                           /\ CountOfType("checkpoint") >= 1 )

-----------------------------------------------------------------------------
(* Claims about construction (under SpecConstruct).                        *)

\* C18: a platform configured with a non-positive width, height or depth, and a body
\* configured with a non-positive mass, are rejected with an error: none is created
C18_InvalidConfigRejected ==
  /\ \A i \in 1..Len(platforms) : \A a \in Axes : platforms[i].p.dims[a] > 0
  /\ \A id \in DOMAIN bodies : bodies[id].mass > 0

-----------------------------------------------------------------------------
(* Claims about errors (under SpecPhysics).                                *)

\* C19: applyImpulse with an id that is not registered changes no body and not the
\* set of bodies; all it does is record one error with ErrorService
C19_UnknownIdOnlyRecordsError ==
  [][ \A id \in PhysicsIds \ DOMAIN bodies :
        lastOp' = ImpulseOp(id)
          => /\ bodies' = bodies
             /\ errors' = errors + 1
             /\ UNCHANGED <<phLog, queryVars, inputVars, editorVars, loopVars, engineVars>>
    ]_vars

\* the impulse for the unknown id has been refused after the player ball was pushed
C19_Witness ==
  /\ lastOp = ImpulseOp("ghost")
  /\ "ghost" \notin DOMAIN bodies
  /\ errors >= 1
  /\ \E id \in DOMAIN bodies : bodies[id].velocity # Zero3

-----------------------------------------------------------------------------
(* Claims about the input (under SpecInput).                               *)

\* C20: in every interleaving of keydown, keyup and setEditorModalOpen, getState()
\* has every intent false while the editor modal is open, and an intent becomes
\* true only by a keydown of one of its keys that arrives while the modal is
\* closed - so after a close it stays false until such a keydown
C20_InputBlocked ==
  [][ /\ isEditorModalOpen' => getState(inputState', isEditorModalOpen') = NoInput
      /\ \A i \in Intents :
           ( /\ ~getState(inputState, isEditorModalOpen)[i]
             /\ getState(inputState', isEditorModalOpen')[i] )
           => /\ ~isEditorModalOpen /\ ~isEditorModalOpen'
              /\ \E key \in keyBindings[i] : lastOp' = KeyDownOp(key)
    ]_vars

\* a keydown of a bound key has arrived while the modal was open, and every
\* intent is false
C20_Witness ==
  /\ isEditorModalOpen
  /\ lastOp = KeyDownOp("ArrowLeft")
  /\ getState(inputState, isEditorModalOpen) = NoInput

-----------------------------------------------------------------------------
(* Claims about the input of a fixed step (under SpecControl).             *)

\* the body stands: within 0.1 of the floor, or in contact with a platform whose
\* normal points up
Standing(position, radius) ==
  \/ position[2] <= radius + Unit \div 10
  \/ \E i \in 1..Len(platforms) :
       LET c == checkStaticSphereCollision(platforms[i].p, position, radius)
       IN c.collides /\ 2 * c.normal[2] > NormScale

Range(s) == {s[i] : i \in 1..Len(s)}

RECURSIVE SumOf(_)
SumOf(s) == IF s = <<>> THEN Zero3 ELSE VAdd(Head(s), SumOf(Tail(s)))

\* C21: in each fixed step handleInput applies the jump impulse only if the jump
\* intent is set and the body is grounded, and each horizontal intent as an impulse
\* of moveForce * dt when grounded and moveForce * dt * airControl when not
C21_InputMapping ==
  (Stepped /\ Player \in DOMAIN stepLog.before) =>
    LET grounded == Standing(stepLog.before[Player], bodies[Player].radius)
        force == TDiv(moveForce * fixedTimeStep, TimeScale)
        control == IF grounded THEN force ELSE TDiv(force * airControl, Tenth)
        applied == Range(stepLog.impulses)
        expected ==
          {f \in {Vec(-control, 0, 0)} : stepLog.input.left}
            \cup {f \in {Vec(control, 0, 0)} : stepLog.input.right}
            \cup {f \in {Vec(0, 0, -control)} : stepLog.input.up}
            \cup {f \in {Vec(0, 0, control)} : stepLog.input.down}
            \cup {f \in {Vec(0, jumpForce, 0)} : stepLog.input.jump /\ grounded}
    IN /\ applied = expected
       /\ Len(stepLog.impulses) = Cardinality(expected)
       /\ stepLog.pushed[Player]
            = VAdd(stepLog.velocityBefore[Player], SumOf(stepLog.impulses))

\* a step in the air, after a jump has taken the ball off the ground, with the
\* jump and left intents set: the left impulse is applied reduced by airControl,
\* and no jump
C21_Witness ==
  /\ Stepped
  /\ stepLog.input.jump /\ stepLog.input.left
  /\ ~Standing(stepLog.before[Player], bodies[Player].radius)
  /\ stepLog.velocityBefore[Player][2] > 0
  /\ Vec(-TDiv(TDiv(moveForce * fixedTimeStep, TimeScale) * airControl, Tenth), 0, 0)
       \in Range(stepLog.impulses)
  /\ Vec(0, jumpForce, 0) \notin Range(stepLog.impulses)

-----------------------------------------------------------------------------
(* Claims about starting and stopping the loop (under Spec).               *)

\* C22: once stop() has returned, and until start() is called again, the loop runs
\* no fixed update and no render; a gameLoop callback that was already scheduled
\* returns and changes nothing
C22_StoppedLoopDoesNothing ==
  [][ ~isRunning =>
        /\ lastOp' \notin {"gameLoop", "GameEngine.update", "render"}
        /\ lastOp' = "gameLoop returned"
             => UNCHANGED <<isRunning, accumulator, pc, frame, physVars, queryVars,
                            inputVars, editorVars, engineVars>>
    ]_vars

\* the loop has run fixed updates, was stopped, and the callback that was scheduled
\* has returned
C22_Witness ==
  /\ lastOp = "gameLoop returned"
  /\ ~isRunning
  /\ budget.updates > 0
  /\ pending = 0

-----------------------------------------------------------------------------
(* Claims about Platform.update (under SpecPlatform).                      *)

\* C23: Platform.update(dt) leaves a platform that is not moving as it is - its
\* position, its velocity (zero), its accumulated time and its bounding box - for
\* every dt and after any number of updates
C23_StaticPlatformsStay ==
  \A i \in 1..Len(platforms) :
    LET p == platforms[i].p
    IN ~p.isMoving =>
         /\ p.position = p.initialPosition
         /\ p.velocity = Zero3
         /\ p.accumulatedTime = 0
         /\ p.bbMin = BoxMin(p.initialPosition, p.dims)
         /\ p.bbMax = BoxMax(p.initialPosition, p.dims)

\* after several updates the moving platform has moved, next to static ones
C23_Witness ==
  /\ lastOp = "LevelService.updatePlatforms"
  /\ budget.updates >= 3
  /\ \E i \in 1..Len(platforms) : ~platforms[i].p.isMoving
  /\ \E i \in 1..Len(platforms) :
       /\ platforms[i].p.isMoving
       /\ platforms[i].p.position # platforms[i].p.initialPosition

-----------------------------------------------------------------------------
(* Claims about the collision response of one step (under SpecGround).     *)

\* C24: once a platform has reported a collision whose normal has a vertical component
\* above 0.5, the body is marked as on a platform in the response to every platform
\* that collides with it from then on in the same step
C24_GroundedMarking ==
  lastOp = "GameEngine.update" =>
    \A id \in DOMAIN stepLog.marks :
      LET marks == stepLog.marks[id]
      IN \A i \in 1..Len(marks) : \A j \in i..Len(marks) :
           2 * marks[i].normalY > NormScale => marks[j].isOnPlatform

-----------------------------------------------------------------------------
(* Claims about the velocity of a body (under SpecControl).                *)

\* C25: the velocity that the collision pipeline of GameEngine.update reads and
\* writes for a body is the velocity that PhysicsService integrates and that
\* applyImpulse changes
C25_OneVelocity ==
  \A id \in DOMAIN objects \cap DOMAIN bodies :
    objects[id].velocity = bodies[id].velocity

-----------------------------------------------------------------------------
(* Claims about the level bounds (under SpecBounds).                       *)

InsideLevel(position) ==
  /\ Abs(position[1]) <= trackWidth \div 2
  /\ position[2] >= 0
  /\ -trackLength <= position[3] /\ position[3] <= 0

\* C26: at the end of every fixed update the position of each body lies inside the
\* level bounds of LevelService.constrainPosition
C26_InsideLevelBounds ==
  lastOp = "GameEngine.update" => \A id \in DOMAIN bodies : InsideLevel(bodies[id].position)

-----------------------------------------------------------------------------
(* Claims about the order of one fixed step (under Spec).                  *)

CallsOf(name) == {i \in 1..Len(stepLog.calls) : stepLog.calls[i] = name}

\* C27: in one fixed step the integrator runs first, then the platforms are updated,
\* and no collision query runs before both of them
C27_StepOrder ==
  lastOp = "GameEngine.update" =>
    /\ \A i \in CallsOf("PhysicsService.update") :
         \A u \in CallsOf("LevelService.updatePlatforms") : i < u
    /\ \A c \in CallsOf("Platform.checkSphereCollision") :
         \A b \in CallsOf("PhysicsService.update") \cup CallsOf("LevelService.updatePlatforms") :
           b < c

-----------------------------------------------------------------------------
(* Claims about the callbacks of the game loop (under Spec).               *)

\* C28: for every interleaving of start(), stop() and animation-frame callbacks, at
\* most one gameLoop callback is pending at any time
C28_SingleLoop == pending <= 1

-----------------------------------------------------------------------------
(* Claims about saved tracks and platform ids (under SpecTrack).           *)

\* the platform set has exactly the saved ids, each with the saved type, dimensions
\* and position
HoldsSaved(ps, data) ==
  /\ {ps[i].id : i \in 1..Len(ps)} = {data.platforms[i].id : i \in 1..Len(data.platforms)}
  /\ \A i \in 1..Len(ps) : \A j \in 1..Len(data.platforms) :
       ps[i].id = data.platforms[j].id =>
         LET config == data.platforms[j].config
         IN /\ ps[i].p.type = config.type
            /\ ps[i].p.dims = Vec(config.width, config.height, config.depth)
            /\ ps[i].p.position = Vec(config.position.x, config.position.y, config.position.z)

\* C29: a loadTrack that fails leaves the platform set of LevelService as it was; a
\* loadTrack that succeeds leaves exactly the saved platforms
C29_FailedLoadKeepsTrack ==
  [][ /\ lastOp' = "TrackEditorService.loadTrack failed" => platforms' = platforms
      /\ lastOp' = "TrackEditorService.loadTrack loaded"
           => HoldsSaved(platforms', editor.saved[trackKey("track")]) ]_vars

\* a createPlatform step has added one platform, under an id no platform had, and
\* has left the platforms there were as they were
AddsFresh ==
  /\ Len(platforms') = Len(platforms) + 1
  /\ SubSeq(platforms', 1, Len(platforms)) = platforms
  /\ \A i \in 1..Len(platforms) : platforms[i].id # platforms'[Len(platforms')].id

\* C30 as stated: after any sequence of createPlatform, deletePlatform, loadTrack,
\* createLevel and dispose, createPlatform adds its platform under an id that is not
\* in the platform set: the set grows by exactly one and no platform is replaced
C30_FreshIds ==
  [][ lastOp' = "TrackEditorService.createPlatform" => AddsFresh ]_vars

\* C30, amended: createPlatform on an editor that has its scene adds its platform
\* under an id that is not in the platform set; without a scene (before initialize,
\* after dispose) it adds nothing and records an error
C30_FreshIdsWithScene ==
  [][ lastOp' = "TrackEditorService.createPlatform" =>
        IF editor.scene THEN AddsFresh
        ELSE platforms' = platforms /\ errors' = errors + 1 ]_vars

\* a second platform has been placed after an operation that failed
C30_Witness ==
  /\ lastOp = "TrackEditorService.createPlatform"
  /\ editor.scene /\ editor.nextPlatformId >= 2 /\ errors > 0
  /\ \E i \in 1..Len(platforms) : platforms[i].id = "platform_1"

=============================================================================
